---- MODULE Spec2Model ----
(***************************************************************************)
(* Model of the candidate schedule generator of AutoTable                  *)
(* (scheduler-core.ts): the seeded random source, the requirement          *)
(* expander, the constraint evaluator, one placement attempt run lesson by *)
(* lesson, the scorer and the bounded, de-duplicated candidate pool.       *)
(***************************************************************************)
EXTENDS Integers, Sequences, FiniteSets, TLC

(***************************************************************************)
(* Bounds of the model                                                     *)
(***************************************************************************)
MaxAttempts == 2
MaxKeep == 2
MaxTick == 1
MaxPeriodsPerCycle == 2
HeavyLoad == 11
MaxPeriodCount == 3
MaxRequests == 2
MaxEdits == 2
MaxUndo == 2

(***************************************************************************)
(* Values of the program                                                   *)
(***************************************************************************)
\* an absent optional field (roomId, preferredRoomId)
undefined == "undefined"

\* the empty cell of an assignment grid
null == [empty |-> TRUE]

SlotValue(subjectId, teacherId, roomId) ==
    [subjectId |-> subjectId, teacherId |-> teacherId, roomId |-> roomId]

\* `${day}|${periodId}|${classId}`; ids never contain the separator, so the
\* key is the list of its three fields
slotKey(day, periodId, classId) == <<day, periodId, classId>>

parseSlotKey(key) == [day |-> key[1], periodId |-> key[2], classId |-> key[3]]

\* slots[key] read with `?? null`: a key the object lacks reads as empty
Lookup(slots, key) == IF key \in DOMAIN slots THEN slots[key] ELSE null

(***************************************************************************)
(* createRng: 32-bit linear congruential generator.  The 32-bit state is   *)
(* kept as two 16-bit halves <<hi, lo>> so that every product stays a      *)
(* small integer.                                                          *)
(***************************************************************************)
Half == 65536

\* 1664525 = 25 * 65536 + 26125,  1013904223 = 15470 * 65536 + 62303
MulHi == 25
MulLo == 26125
IncHi == 15470
IncLo == 62303

\* seed >>> 0 for a non-negative seed below 2^31
createRng(seed) == <<(seed \div Half) % Half, seed % Half>>

\* state = (1664525 * state + 1013904223) >>> 0
NextRngState(state) ==
    LET low == MulLo * state[2] + IncLo
        high == MulHi * state[2] + MulLo * state[1] + IncHi + (low \div Half)
    IN  <<high % Half, low % Half>>

\* Math.floor((state / 4294967296) * n) for the state just produced
RandBelow(state, n) == (state[1] * n + ((state[2] * n) \div Half)) \div Half

\* faulty variant: out[i] = out[j] without the write to out[j]
SwapOverwrites(seq, a, b) ==
    [k \in 1..Len(seq) |-> IF k = a THEN seq[b] ELSE seq[k]]

Swap(seq, a, b) ==
    [k \in 1..Len(seq) |-> IF k = a THEN seq[b] ELSE IF k = b THEN seq[a] ELSE seq[k]]

RECURSIVE ShuffleFrom(_, _, _)
\* the loop of shuffle from 0-based index i down to 1
ShuffleFrom(out, state, i) ==
    IF i <= 0
    THEN [out |-> out, state |-> state]
    ELSE LET s2 == NextRngState(state)
             j == RandBelow(s2, i + 1)
         IN  ShuffleFrom(Swap(out, i + 1, j + 1), s2, i - 1)

shuffle(items, state) == ShuffleFrom(items, state, Len(items) - 1)

(***************************************************************************)
(* Constraint evaluator                                                    *)
(***************************************************************************)
\* faulty variant: the scan compares the subject of the cell, not its teacher
teacherBusyWrongField(slots, day, periodId, teacherId) ==
    \E key \in DOMAIN slots :
        /\ slots[key] # null
        /\ parseSlotKey(key).day = day
        /\ parseSlotKey(key).periodId = periodId
        /\ slots[key].subjectId = teacherId

teacherBusy(slots, day, periodId, teacherId) ==
    \E key \in DOMAIN slots :
        /\ slots[key] # null
        /\ parseSlotKey(key).day = day
        /\ parseSlotKey(key).periodId = periodId
        /\ slots[key].teacherId = teacherId

roomBusy(slots, day, periodId, roomId) ==
    \E key \in DOMAIN slots :
        /\ slots[key] # null
        /\ slots[key].roomId # undefined
        /\ parseSlotKey(key).day = day
        /\ parseSlotKey(key).periodId = periodId
        /\ slots[key].roomId = roomId

\* faulty variant: the blocklist is looked up with the period alone
teacherIsBlockedByPeriod(data, teacherId, day, periodId) ==
    /\ teacherId \in DOMAIN data.teacherBlocked
    /\ <<periodId>> \in data.teacherBlocked[teacherId]

\* data.teacherBlocked[teacherId]?.includes(`${day}|${period.id}`)
teacherIsBlocked(data, teacherId, day, periodId) ==
    /\ teacherId \in DOMAIN data.teacherBlocked
    /\ <<day, periodId>> \in data.teacherBlocked[teacherId]

(***************************************************************************)
(* Scorer                                                                  *)
(***************************************************************************)
Ceiling == 10000
UnplacedPenalty == 1000
AdjacencyPenalty == 6

Max(a, b) == IF a >= b THEN a ELSE b

RECURSIVE SumSeq(_)
SumSeq(seq) == IF seq = <<>> THEN 0 ELSE Head(seq) + SumSeq(Tail(seq))

\* value?.subjectId ?? '' for one class and day, along the period list
daySubjects(data, slots, klass, day) ==
    [p \in 1..Len(data.periods) |->
        LET value == Lookup(slots, slotKey(day, data.periods[p].id, klass))
        IN  IF value = null THEN "" ELSE value.subjectId]

\* the 6-point penalties of one class and day
dayPenalty(subjects) ==
    SumSeq([k \in 1..(Len(subjects) - 1) |->
        IF subjects[k + 1] # "" /\ subjects[k + 1] = subjects[k]
        THEN AdjacencyPenalty ELSE 0])

\* faulty variant: an adjacent pair is counted whenever the two cells are
\* equal, empty ones included
scoreScheduleCountsEmpty(data, slots, unplaced) ==
    LET pairs(subjects) == SumSeq([k \in 1..(Len(subjects) - 1) |->
            IF subjects[k + 1] = subjects[k] THEN AdjacencyPenalty ELSE 0])
        perClass == [c \in 1..Len(data.classes) |->
            SumSeq([d \in 1..Len(data.days) |->
                pairs(daySubjects(data, slots, data.classes[c], data.days[d]))])]
        penalty == unplaced * UnplacedPenalty + SumSeq(perClass)
    IN  Max(0, Ceiling - penalty)

scoreSchedule(data, slots, unplaced) ==
    LET perClass == [c \in 1..Len(data.classes) |->
            SumSeq([d \in 1..Len(data.days) |->
                dayPenalty(daySubjects(data, slots, data.classes[c], data.days[d]))])]
        penalty == unplaced * UnplacedPenalty + SumSeq(perClass)
    IN  Max(0, Ceiling - penalty)

(***************************************************************************)
(* Requirement expander                                                    *)
(***************************************************************************)
LessonItem(req, allowed) ==
    [classId |-> req.classId, subjectId |-> req.subjectId,
     preferredRoomId |-> req.preferredRoomId, allowedTeacherIds |-> allowed]

RECURSIVE expandRequirementsOnce(_, _)
\* faulty variant: the inner loop starts at 1, so one occurrence is missing
expandRequirementsOnce(reqs, teachersAll) ==
    IF reqs = <<>> THEN <<>>
    ELSE LET req == Head(reqs)
             allowed == IF Len(req.allowedTeacherIds) # 0
                        THEN req.allowedTeacherIds ELSE teachersAll
         IN  [k \in 1..(req.periodsPerCycle - 1) |-> LessonItem(req, allowed)]
             \o expandRequirementsOnce(Tail(reqs), teachersAll)

RECURSIVE expandRequirements(_, _)
\* the push loop of buildLessonItems, requirement by requirement
expandRequirements(reqs, teachersAll) ==
    IF reqs = <<>> THEN <<>>
    ELSE LET req == Head(reqs)
             allowed == IF Len(req.allowedTeacherIds) # 0
                        THEN req.allowedTeacherIds ELSE teachersAll
         IN  [k \in 1..req.periodsPerCycle |-> LessonItem(req, allowed)]
             \o expandRequirements(Tail(reqs), teachersAll)

\* (a, b) => a.allowedTeacherIds.length - b.allowedTeacherIds.length
compareLessons(a, b) == Len(a.allowedTeacherIds) - Len(b.allowedTeacherIds)

\* items.sort(compareLessons); Array.prototype.sort is stable, so an item goes
\* behind the items that compare before it and the equal ones that precede it
sortLessons(list) ==
    LET before(j, k) == \/ compareLessons(list[j], list[k]) < 0
                        \/ compareLessons(list[j], list[k]) = 0 /\ j < k
        rank == [k \in 1..Len(list) |->
                    Cardinality({j \in 1..Len(list) : before(j, k)}) + 1]
    IN  [p \in 1..Len(list) |-> list[CHOOSE k \in 1..Len(list) : rank[k] = p]]

\* faulty variant: every task may take any known teacher
buildLessonItemsAnyTeacher(data) ==
    sortLessons([k \in 1..Len(expandRequirements(data.requirements, data.teachers)) |->
        [expandRequirements(data.requirements, data.teachers)[k]
            EXCEPT !.allowedTeacherIds = data.teachers]])

buildLessonItems(data) ==
    sortLessons(expandRequirements(data.requirements, data.teachers))

(***************************************************************************)
(* Stochastic placer: the options of one lesson                            *)
(***************************************************************************)
Option(key, value) == [key |-> key, value |-> value]

RECURSIVE teacherOptionsRoomRejects(_, _, _, _, _, _)
\* faulty variant: a busy preferred room rejects the teacher like a busy
\* teacher does
teacherOptionsRoomRejects(data, slots, item, day, periodId, teachers) ==
    IF teachers = <<>> THEN <<>>
    ELSE LET teacherId == Head(teachers)
             rest == teacherOptionsRoomRejects(data, slots, item, day, periodId,
                                               Tail(teachers))
         IN  IF teacherIsBlocked(data, teacherId, day, periodId) THEN rest
             ELSE IF teacherBusy(slots, day, periodId, teacherId) THEN rest
             ELSE IF /\ item.preferredRoomId # undefined
                     /\ roomBusy(slots, day, periodId, item.preferredRoomId) THEN rest
             ELSE <<Option(slotKey(day, periodId, item.classId),
                           SlotValue(item.subjectId, teacherId, item.preferredRoomId))>>
                  \o rest

RECURSIVE teacherOptionsKeepsRoom(_, _, _, _, _, _)
\* faulty variant: the preferred room is kept although it is taken
teacherOptionsKeepsRoom(data, slots, item, day, periodId, teachers) ==
    IF teachers = <<>> THEN <<>>
    ELSE LET teacherId == Head(teachers)
             rest == teacherOptionsKeepsRoom(data, slots, item, day, periodId,
                                             Tail(teachers))
         IN  IF teacherIsBlocked(data, teacherId, day, periodId) THEN rest
             ELSE IF teacherBusy(slots, day, periodId, teacherId) THEN rest
             ELSE <<Option(slotKey(day, periodId, item.classId),
                           SlotValue(item.subjectId, teacherId, item.preferredRoomId))>>
                  \o rest

RECURSIVE teacherOptions(_, _, _, _, _, _)
\* the loop over the shuffled teachers of one empty cell
teacherOptions(data, slots, item, day, periodId, teachers) ==
    IF teachers = <<>> THEN <<>>
    ELSE LET teacherId == Head(teachers)
             rest == teacherOptions(data, slots, item, day, periodId, Tail(teachers))
             roomId == IF /\ item.preferredRoomId # undefined
                          /\ roomBusy(slots, day, periodId, item.preferredRoomId)
                       THEN undefined ELSE item.preferredRoomId
         IN  IF teacherIsBlocked(data, teacherId, day, periodId) THEN rest
             ELSE IF teacherBusy(slots, day, periodId, teacherId) THEN rest
             ELSE <<Option(slotKey(day, periodId, item.classId),
                           SlotValue(item.subjectId, teacherId, roomId))>> \o rest

\* the (day, period) pairs in the order of the two nested loops
Cells(data) ==
    [k \in 1..(Len(data.days) * Len(data.periods)) |->
        [day |-> data.days[((k - 1) \div Len(data.periods)) + 1],
         period |-> data.periods[((k - 1) % Len(data.periods)) + 1]]]

\* faulty variant: a filled cell is not skipped
RECURSIVE chooseFromAnyCell(_, _, _, _, _, _)
chooseFromAnyCell(data, slots, item, state, k, options) ==
    IF k > Len(Cells(data))
    THEN [options |-> options, state |-> state]
    ELSE LET day == Cells(data)[k].day
             period == Cells(data)[k].period
         IN  IF period.isBreak
             THEN chooseFromAnyCell(data, slots, item, state, k + 1, options)
             ELSE LET sh == shuffle(item.allowedTeacherIds, state)
                  IN  chooseFromAnyCell(data, slots, item, sh.state, k + 1,
                          options \o teacherOptions(data, slots, item, day,
                                                    period.id, sh.out))

RECURSIVE chooseFrom(_, _, _, _, _, _)
\* the two nested loops of chooseOptions from the k-th cell on; options are
\* the ones pushed so far
chooseFrom(data, slots, item, state, k, options) ==
    IF k > Len(Cells(data))
    THEN [options |-> options, state |-> state]
    ELSE LET day == Cells(data)[k].day
             period == Cells(data)[k].period
             key == slotKey(day, period.id, item.classId)
         IN  IF period.isBreak \/ Lookup(slots, key) # null
             THEN chooseFrom(data, slots, item, state, k + 1, options)
             ELSE LET sh == shuffle(item.allowedTeacherIds, state)
                  IN  chooseFrom(data, slots, item, sh.state, k + 1,
                          options \o teacherOptions(data, slots, item, day,
                                                    period.id, sh.out))

chooseOptions(data, slots, item, state) == chooseFrom(data, slots, item, state, 1, <<>>)

(***************************************************************************)
(* Candidate pool                                                          *)
(***************************************************************************)
\* faulty variant: the comparator is b.score - a.score alone
compareCandidatesScoreOnly(a, b) == b.score - a.score

\* (a, b) => b.score - a.score || a.unplaced - b.unplaced
compareCandidates(a, b) ==
    IF b.score - a.score # 0 THEN b.score - a.score ELSE a.unplaced - b.unplaced

\* best.sort(compareCandidates), a stable sort
sortBest(list) ==
    LET before(j, k) == \/ compareCandidates(list[j], list[k]) < 0
                        \/ compareCandidates(list[j], list[k]) = 0 /\ j < k
        rank == [k \in 1..Len(list) |->
                    Cardinality({j \in 1..Len(list) : before(j, k)}) + 1]
    IN  [p \in 1..Len(list) |-> list[CHOOSE k \in 1..Len(list) : rank[k] = p]]

\* the keys of an attempt's grid in insertion order: days, then non-break
\* periods, then classes
GridKeys(data) ==
    LET n == Len(data.days) * Len(data.periods) * Len(data.classes)
        all == [k \in 1..n |->
                 LET d == ((k - 1) \div (Len(data.periods) * Len(data.classes))) + 1
                     p == (((k - 1) \div Len(data.classes)) % Len(data.periods)) + 1
                     c == ((k - 1) % Len(data.classes)) + 1
                 IN  [key |-> slotKey(data.days[d], data.periods[p].id, data.classes[c]),
                      isBreak |-> data.periods[p].isBreak]]
    IN  SelectSeq(all, LAMBDA e : ~e.isBreak)

\* one value as JSON.stringify writes it: an undefined roomId is left out
jsonValue(value) ==
    IF value = null THEN <<"null">>
    ELSE IF value.roomId = undefined THEN <<"{", value.subjectId, value.teacherId>>
    ELSE <<"{", value.subjectId, value.teacherId, value.roomId>>

\* JSON.stringify(trial.slots): the keys in insertion order with their values
signatureOf(data, slots) ==
    [k \in 1..Len(GridKeys(data)) |->
        <<GridKeys(data)[k].key, jsonValue(slots[GridKeys(data)[k].key])>>]

\* the grid seededAttempt starts from
initialSlots(data, lockedSlots) ==
    LET locked == {lockedSlots[k] : k \in 1..Len(lockedSlots)}
    IN  [key \in {GridKeys(data)[k].key : k \in 1..Len(GridKeys(data))} |->
            IF key \in locked THEN Lookup(data.slots, key) ELSE null]

(***************************************************************************)
(* Time model builder (utils.ts): parsing and formatting of times,         *)
(* validation of the breaks, the instructional intervals and the           *)
(* allocation of the periods to them.  A time string "HH:MM" is the pair   *)
(* of its hour and minute numbers; minutes are integers, and a share       *)
(* len / total * periodCount is kept as the exact fraction.                *)
(***************************************************************************)
HHMM(h, m) == <<h, m>>

\* the default of the parameter minPeriodMinutes
minPeriodMinutes == 20

\* the null of parseHHMM
nullMinutes == 0 - 1

\* the null of validateBreaks
nullString == "null"

parseHHMM(value) ==
    IF value[1] \in 0..23 /\ value[2] \in 0..59
    THEN value[1] * 60 + value[2]
    ELSE nullMinutes

formatHHMM(minutes) == <<minutes \div 60, minutes % 60>>

SchoolBreak(name, startTime, endTime) ==
    [name |-> name, startTime |-> startTime, endTime |-> endTime]

\* parseHHMM(value) ?? 0
orZero(minutes) == IF minutes = nullMinutes THEN 0 ELSE minutes

\* rows.sort((a, b) => (a.start ?? 0) - (b.start ?? 0)), a stable sort
sortByStart(breaks) ==
    LET key(k) == orZero(parseHHMM(breaks[k].startTime))
        before(j, k) == key(j) < key(k) \/ (key(j) = key(k) /\ j < k)
        rank == [k \in 1..Len(breaks) |->
                    Cardinality({j \in 1..Len(breaks) : before(j, k)}) + 1]
    IN  [p \in 1..Len(breaks) |->
            breaks[CHOOSE k \in 1..Len(breaks) : rank[k] = p]]

\* the checks validateBreaks makes on one break
breakError(br, start, end) ==
    LET bStart == parseHHMM(br.startTime)
        bEnd == parseHHMM(br.endTime)
    IN  IF bStart = nullMinutes \/ bEnd = nullMinutes
        THEN "Invalid break time in " \o br.name \o "."
        ELSE IF bStart >= bEnd THEN br.name \o ": start must be before end."
        ELSE IF bStart < start \/ bEnd > end
        THEN br.name \o ": must be within school day window."
        ELSE nullString

\* the check validateBreaks makes on two neighbours of the sorted breaks
overlapError(prev, br) ==
    IF orZero(parseHHMM(br.startTime)) < orZero(parseHHMM(prev.endTime))
    THEN "Break overlap detected between " \o prev.name \o " and " \o br.name \o "."
    ELSE nullString

\* the first error a loop returns, or null when it runs to its end
firstError(errors) ==
    IF \E k \in 1..Len(errors) : errors[k] # nullString
    THEN errors[CHOOSE k \in 1..Len(errors) :
                    /\ errors[k] # nullString
                    /\ \A j \in 1..(k - 1) : errors[j] = nullString]
    ELSE nullString

validateBreaks(breaks, dayStart, dayEnd) ==
    LET start == parseHHMM(dayStart)
        end == parseHHMM(dayEnd)
        rows == sortByStart(breaks)
        rowErrors == [k \in 1..Len(rows) |-> breakError(rows[k], start, end)]
        overlapErrors == [k \in 1..(Len(rows) - 1) |-> overlapError(rows[k], rows[k + 1])]
    IN  IF start = nullMinutes \/ end = nullMinutes THEN "Invalid school start/end time."
        ELSE IF start >= end THEN "School start time must be before end time."
        ELSE IF firstError(rowErrors) # nullString THEN firstError(rowErrors)
        ELSE firstError(overlapErrors)

Interval(start, end) == [start |-> start, end |-> end]

\* faulty variant: the cursor is set to the start of the break, not its end
RECURSIVE intervalsFromBreakStart(_, _, _, _, _)
intervalsFromBreakStart(sortedBreaks, k, cursor, dayEnd, acc) ==
    IF k > Len(sortedBreaks)
    THEN IF cursor < dayEnd THEN Append(acc, Interval(cursor, dayEnd)) ELSE acc
    ELSE LET bStart == parseHHMM(sortedBreaks[k].startTime)
         IN  intervalsFromBreakStart(sortedBreaks, k + 1, bStart, dayEnd,
                                     IF cursor < bStart
                                     THEN Append(acc, Interval(cursor, bStart))
                                     ELSE acc)

\* the loop over the sorted breaks that collects the open intervals
RECURSIVE intervalsFrom(_, _, _, _, _)
intervalsFrom(sortedBreaks, k, cursor, dayEnd, acc) ==
    IF k > Len(sortedBreaks)
    THEN IF cursor < dayEnd THEN Append(acc, Interval(cursor, dayEnd)) ELSE acc
    ELSE LET bStart == parseHHMM(sortedBreaks[k].startTime)
             bEnd == parseHHMM(sortedBreaks[k].endTime)
         IN  intervalsFrom(sortedBreaks, k + 1, bEnd, dayEnd,
                           IF cursor < bStart
                           THEN Append(acc, Interval(cursor, bStart))
                           ELSE acc)

buildIntervals(breaks, dayStart, dayEnd) ==
    intervalsFrom(sortByStart(breaks), 1, dayStart, dayEnd, <<>>)

RECURSIVE SumInts(_)
SumInts(seq) == IF seq = <<>> THEN 0 ELSE Head(seq) + SumInts(Tail(seq))

intervalLength(interval) == interval.end - interval.start

\* faulty variant: the length of the whole window, breaks included
totalInstructionWholeDay(intervals) ==
    IF intervals = <<>> THEN 0
    ELSE intervals[Len(intervals)].end - intervals[1].start

totalInstruction(intervals) ==
    SumInts([k \in 1..Len(intervals) |-> intervalLength(intervals[k])])

\* largest-remainder allocation: floor of every share, then one more period
\* for the largest remainders while periods remain.  The share of interval k
\* is len[k] * periodCount / total, so its floor is the integer quotient and
\* its remainder the rest of the division, over the common denominator.
allocateCounts(intervals, periodCount) ==
    LET total == totalInstruction(intervals)
        n == Len(intervals)
        floors == [k \in 1..n |-> (intervalLength(intervals[k]) * periodCount) \div total]
        rems == [k \in 1..n |-> (intervalLength(intervals[k]) * periodCount) % total]
        remaining == periodCount - SumInts(floors)
        before(j, k) == rems[j] > rems[k] \/ (rems[j] = rems[k] /\ j < k)
        position == [k \in 1..n |-> Cardinality({j \in 1..n : before(j, k)})]
    IN  [k \in 1..n |-> floors[k] + (IF position[k] < remaining THEN 1 ELSE 0)]

\* faulty variant: the target must leave periods longer than the minimum
rebalanceTargetStrict(intervals, counts) ==
    LET n == Len(intervals)
        fits(j) == intervalLength(intervals[j]) > minPeriodMinutes * (counts[j] + 1)
        longer(j, k) == intervalLength(intervals[j]) * (counts[k] + 1)
                            > intervalLength(intervals[k]) * (counts[j] + 1)
    IN  IF \E j \in 1..n : fits(j)
        THEN CHOOSE j \in 1..n :
                /\ fits(j)
                /\ \A k \in 1..n : fits(k) =>
                        /\ ~longer(k, j)
                        /\ (k < j => longer(j, k))
        ELSE 0

\* the interval a period taken from an overfull interval moves to: the first
\* one with the longest periods after the move, if that is long enough;
\* 0 when there is none
rebalanceTarget(intervals, counts) ==
    LET n == Len(intervals)
        fits(j) == intervalLength(intervals[j]) >= minPeriodMinutes * (counts[j] + 1)
        longer(j, k) == intervalLength(intervals[j]) * (counts[k] + 1)
                            > intervalLength(intervals[k]) * (counts[j] + 1)
    IN  IF \E j \in 1..n : fits(j)
        THEN CHOOSE j \in 1..n :
                /\ fits(j)
                /\ \A k \in 1..n : fits(k) =>
                        /\ ~longer(k, j)
                        /\ (k < j => longer(j, k))
        ELSE 0

\* faulty variant: the remainder minutes go to the last periods
RECURSIVE splitIntervalRemainderLast(_, _, _, _, _, _)
splitIntervalRemainderLast(start, base, rem, left, periodIndex, acc) ==
    IF left = 0 THEN acc
    ELSE LET dur == base + (IF left <= rem THEN 1 ELSE 0)
             end == start + dur
         IN  splitIntervalRemainderLast(end, base, rem, left - 1, periodIndex + 1,
                           Append(acc, [id |-> "p" \o ToString(periodIndex),
                                        label |-> "P" \o ToString(periodIndex),
                                        start |-> formatHHMM(start),
                                        end |-> formatHHMM(end),
                                        isBreak |-> FALSE]))

\* the periods of one interval: base minutes each, the first rem of them one
\* minute longer
RECURSIVE splitInterval(_, _, _, _, _, _)
splitInterval(start, base, rem, left, periodIndex, acc) ==
    IF left = 0 THEN acc
    ELSE LET dur == base + (IF rem > 0 THEN 1 ELSE 0)
             end == start + dur
         IN  splitInterval(end, base, IF rem > 0 THEN rem - 1 ELSE rem, left - 1,
                           periodIndex + 1,
                           Append(acc, [id |-> "p" \o ToString(periodIndex),
                                        label |-> "P" \o ToString(periodIndex),
                                        start |-> formatHHMM(start),
                                        end |-> formatHHMM(end),
                                        isBreak |-> FALSE]))

\* the loop over the intervals that writes the periods out
RECURSIVE emitPeriods(_, _, _, _)
emitPeriods(intervals, counts, k, acc) ==
    IF k > Len(intervals) THEN acc
    ELSE IF counts[k] <= 0 THEN emitPeriods(intervals, counts, k + 1, acc)
    ELSE LET length == intervalLength(intervals[k])
         IN  emitPeriods(intervals, counts, k + 1,
                         splitInterval(intervals[k].start, length \div counts[k],
                                       length % counts[k], counts[k],
                                       Len(acc) + 1, acc))

BuildResult(periods, error) == [periods |-> periods, error |-> error]

(***************************************************************************)
(* Inputs: the payloads generateCandidates is called with                  *)
(***************************************************************************)
Period(id, isBreak) == [id |-> id, isBreak |-> isBreak]

Teachers == <<"t1", "t2">>

\* the shapes of the timetable: days, period list and classes
Shapes ==
    { [days |-> <<"Mon">>,
       periods |-> <<Period("p1", FALSE), Period("p2", FALSE)>>,
       classes |-> <<"c1", "c2">>],
      [days |-> <<"Mon", "Tue">>,
       periods |-> <<Period("p1", FALSE), Period("brk", TRUE), Period("p2", FALSE)>>,
       classes |-> <<"c1">>] }

ClassSet(shape) == {shape.classes[k] : k \in 1..Len(shape.classes)}

\* the requirements the editor can hold for a shape: a first one for class
\* c1 and, optionally, a second one of a single period
FirstRequirements ==
    [classId : {"c1"},
     subjectId : {"s1"},
     periodsPerCycle : 1..MaxPeriodsPerCycle,
     allowedTeacherIds : {<<>>, <<"t1">>},
     preferredRoomId : {"r1"}]

SecondRequirements(shape) ==
    [classId : ClassSet(shape),
     subjectId : {"s1", "s2"},
     periodsPerCycle : {1},
     allowedTeacherIds : {<<>>, <<"t1">>},
     preferredRoomId : {undefined, "r1"}]

RequirementLists(shape) ==
    {<<r>> : r \in FirstRequirements}
    \cup {<<r, q>> : r \in FirstRequirements, q \in SecondRequirements(shape)}

AllBlockedKeys(shape) ==
    {<<shape.days[d], shape.periods[p].id>> :
        d \in 1..Len(shape.days), p \in 1..Len(shape.periods)}

\* teacher blocklists: nobody blocked, t1 blocked in the first period of
\* Monday, t1 blocked everywhere
Blocklists(shape) ==
    { [t \in {"t1", "t2"} |-> {}],
      [t \in {"t1", "t2"} |-> IF t = "t1" THEN {<<"Mon", "p1">>} ELSE {}],
      [t \in {"t1", "t2"} |-> IF t = "t1" THEN AllBlockedKeys(shape) ELSE {}] }

FirstKey(shape) == slotKey("Mon", shape.periods[1].id, "c1")
SecondKey(shape) == slotKey("Mon", shape.periods[2].id, "c1")

\* live grids with the locked-slot lists that go with them: a locked empty
\* cell, a locked lesson beside an unlocked one, two locked lessons
LockedGrids(shape) ==
    { [slots |-> (FirstKey(shape) :> null),
       lockedSlots |-> <<FirstKey(shape)>>],
      [slots |-> (FirstKey(shape) :> SlotValue("s1", "t1", "r1"))
                 @@ (SecondKey(shape) :> SlotValue("s1", "t2", undefined)),
       lockedSlots |-> <<FirstKey(shape)>>],
      [slots |-> (FirstKey(shape) :> SlotValue("s1", "t1", "r1"))
                 @@ (SecondKey(shape) :> SlotValue("s1", "t2", undefined)),
       lockedSlots |-> <<FirstKey(shape), SecondKey(shape)>>] }

PayloadsOf(shape) ==
    { [data |-> [days |-> shape.days, periods |-> shape.periods,
                 classes |-> shape.classes, teachers |-> Teachers,
                 requirements |-> reqs, teacherBlocked |-> blocked,
                 slots |-> lg.slots],
       lockedSlots |-> lg.lockedSlots, keep |-> keep, attempts |-> attempts] :
        reqs \in RequirementLists(shape), blocked \in Blocklists(shape),
        lg \in LockedGrids(shape), keep \in 0..MaxKeep, attempts \in 0..MaxAttempts }

\* an overloaded timetable: one class needs HeavyLoad lessons of a teacher
\* who is free in a single period, while a second class competes for that
\* teacher
HeavyShape ==
    [days |-> <<"Mon">>,
     periods |-> <<Period("p1", FALSE), Period("p2", FALSE)>>,
     classes |-> <<"c1", "c2">>]

HeavyPayloads ==
    { [data |-> [days |-> HeavyShape.days, periods |-> HeavyShape.periods,
                 classes |-> HeavyShape.classes, teachers |-> Teachers,
                 requirements |->
                     <<[classId |-> "c1", subjectId |-> "s1",
                        periodsPerCycle |-> HeavyLoad,
                        allowedTeacherIds |-> <<"t1">>, preferredRoomId |-> undefined],
                       [classId |-> "c2", subjectId |-> "s2",
                        periodsPerCycle |-> 1,
                        allowedTeacherIds |-> <<>>, preferredRoomId |-> undefined]>>,
                 teacherBlocked |->
                     [t \in {"t1", "t2"} |-> IF t = "t1" THEN {<<"Mon", "p1">>} ELSE {}],
                 slots |-> <<>>],
       lockedSlots |-> <<>>, keep |-> keep, attempts |-> attempts] :
        keep \in 0..MaxKeep, attempts \in 0..MaxAttempts }

Payloads == UNION {PayloadsOf(shape) : shape \in Shapes} \cup HeavyPayloads

\* the values Date.now() can have when generation starts
StartTimes == {32}

(***************************************************************************)
(* Inputs: the calls of buildComputedPeriods                               *)
(***************************************************************************)
DayStarts == {HHMM(8, 0)}

\* day ends: three windows, an end before the start, a string that is no time
DayEnds == {HHMM(8, 40), HHMM(9, 10), HHMM(9, 40), HHMM(7, 30), HHMM(24, 0)}

BreakTimes ==
    {HHMM(8, 0), HHMM(8, 10), HHMM(8, 20), HHMM(8, 30), HHMM(8, 40), HHMM(9, 0)}

\* the breaks the dialog can hold in a row: a start before an end, an end
\* before its start, and a start that is no time
BreakRows(name) ==
    {SchoolBreak(name, t[1], t[2]) :
        t \in {u \in BreakTimes \X BreakTimes : parseHHMM(u[1]) < parseHHMM(u[2])}}
        \cup {SchoolBreak(name, HHMM(8, 30), HHMM(8, 10)),
              SchoolBreak(name, HHMM(8, 60), HHMM(9, 0))}

BreakLists ==
    {<<>>} \cup {<<a>> : a \in BreakRows("Lunch")}
           \cup {<<a, b>> : a \in BreakRows("Lunch"), b \in BreakRows("Recess")}

TimeCall(dayStartTime, dayEndTime, periodCount, breaks) ==
    [dayStartTime |-> dayStartTime, dayEndTime |-> dayEndTime,
     periodCount |-> periodCount, breaks |-> breaks]

TimeCalls ==
    {TimeCall(s, e, n, b) :
        s \in DayStarts, e \in DayEnds, n \in 0..MaxPeriodCount, b \in BreakLists}

(***************************************************************************)
(* State                                                                   *)
(***************************************************************************)
VARIABLES
    payload,    \* the GeneratePayload of the call
    now,        \* Date.now()
    elapsed,    \* milliseconds gone by since the call began
    pc,         \* position in generateCandidates / seededAttempt
    i,          \* loop index of generateCandidates
    best,       \* the candidate pool
    seen,       \* signatures accepted so far
    rand,       \* state of the attempt's generator
    items,      \* the lesson list buildLessonItems returned to the attempt
    lessons,    \* the shuffled lesson list of the attempt
    idx,        \* position in lessons
    slots,      \* the attempt's grid
    unplaced,   \* the attempt's unplaced counter
    options,    \* the options of the current lesson
    ran,        \* number of seededAttempt calls made
    result,     \* the returned list
    produced,   \* what the seededAttempt calls of the run returned so far
    timeCall,   \* the arguments of the call of buildComputedPeriods
    timePc,     \* position in buildComputedPeriods
    intervals,  \* the instructional intervals
    counts,     \* periods allocated to each interval
    ri,         \* index of the for loop of the rebalancing
    changed,    \* the flag of the rebalancing loop
    computed,   \* what buildComputedPeriods returned
    seed,       \* the seed handed to seededAttempt when it is called directly
    trials,     \* what the direct calls of seededAttempt returned, in order
    stateData,      \* the store: state.data
    stateRuntime,   \* the store: state.runtime
    workerRef,      \* workerRef.current: a worker, or 0 for null
    workers,        \* the generator workers created so far
    running,        \* the worker that is executing generateCandidates, or 0
    edits,          \* number of edits of the live state made so far
    lastOp          \* the operation of the editor that ran last

genVars == <<payload, now, elapsed, pc, i, best, seen, rand, items, lessons, idx, slots,
             unplaced, options, ran, result, produced>>

timeVars == <<timeCall, timePc, intervals, counts, ri, changed, computed>>

twinVars == <<seed, trials>>

appVars == <<stateData, stateRuntime, workerRef, workers, running, edits, lastOp>>

vars == <<genVars, timeVars, twinVars, appVars>>

\* the variables the generator leaves alone, and those the time model
\* builder leaves alone
nonGenVars == <<timeVars, twinVars, appVars>>
nonTimeVars == <<genVars, twinVars, appVars>>

\* no call of buildComputedPeriods is under way
TimeIdle ==
    /\ timeCall = TimeCall(HHMM(8, 0), HHMM(8, 0), 0, <<>>)
    /\ timePc = "idle"
    /\ intervals = <<>>
    /\ counts = <<>>
    /\ ri = 1
    /\ changed = FALSE
    /\ computed = BuildResult(<<>>, undefined)

\* no call of generateCandidates is under way
GenIdle ==
    /\ payload = null
    /\ now = 0
    /\ elapsed = 0
    /\ pc = "idle"
    /\ i = 0
    /\ best = <<>>
    /\ seen = {}
    /\ rand = createRng(0)
    /\ items = <<>>
    /\ lessons = <<>>
    /\ idx = 1
    /\ slots = <<>>
    /\ unplaced = 0
    /\ options = <<>>
    /\ ran = 0
    /\ result = <<>>
    /\ produced = {}

\* seededAttempt is not called directly
TwinIdle ==
    /\ seed = 0
    /\ trials = <<>>

\* the editor is not open
AppIdle ==
    /\ stateData = null
    /\ stateRuntime = null
    /\ workerRef = 0
    /\ workers = <<>>
    /\ running = 0
    /\ edits = 0
    /\ lastOp = null


(***************************************************************************)
(* generateCandidates, one step of its loops at a time                     *)
(***************************************************************************)
Init ==
    /\ payload \in Payloads
    /\ now \in StartTimes
    /\ elapsed = 0
    /\ pc = "loop"
    /\ i = 0
    /\ best = <<>>
    /\ seen = {}
    /\ rand = createRng(0)
    /\ items = <<>>
    /\ lessons = <<>>
    /\ idx = 1
    /\ slots = <<>>
    /\ unplaced = 0
    /\ options = <<>>
    /\ ran = 0
    /\ result = <<>>
    /\ produced = {}
    /\ TimeIdle
    /\ TwinIdle
    /\ AppIdle

\* faulty variant: the loop condition is i <= attempts
StartAttemptOneMore ==
    /\ pc = "loop"
    /\ i <= payload.attempts
    /\ items' = buildLessonItems(payload.data)
    /\ \E tick \in 0..(MaxTick - elapsed) :
        LET sh == shuffle(items', createRng(now + tick + i * 97))
        IN  /\ now' = now + tick
            /\ elapsed' = elapsed + tick
            /\ lessons' = sh.out
            /\ rand' = sh.state
    /\ slots' = initialSlots(payload.data, payload.lockedSlots)
    /\ unplaced' = 0
    /\ idx' = 1
    /\ options' = <<>>
    /\ ran' = ran + 1
    /\ pc' = "choose"
    /\ UNCHANGED <<payload, i, best, seen, result>>
    /\ UNCHANGED produced
    /\ UNCHANGED nonGenVars

\* seededAttempt(data, Date.now() + i * 97, lockedSlots) up to its placement
\* loop: seed the generator, shuffle the lessons, fill in the locked cells
StartAttempt ==
    /\ pc = "loop"
    /\ i < payload.attempts
    /\ items' = buildLessonItems(payload.data)
    /\ \E tick \in 0..(MaxTick - elapsed) :
        LET sh == shuffle(items', createRng(now + tick + i * 97))
        IN  /\ now' = now + tick
            /\ elapsed' = elapsed + tick
            /\ lessons' = sh.out
            /\ rand' = sh.state
    /\ slots' = initialSlots(payload.data, payload.lockedSlots)
    /\ unplaced' = 0
    /\ idx' = 1
    /\ options' = <<>>
    /\ ran' = ran + 1
    /\ pc' = "choose"
    /\ UNCHANGED <<payload, i, best, seen, result>>
    /\ UNCHANGED produced
    /\ UNCHANGED nonGenVars

\* const options = chooseOptions(data, slots, lesson, rand)
ChooseStep ==
    /\ pc = "choose"
    /\ idx <= Len(lessons)
    /\ LET ch == chooseOptions(payload.data, slots, lessons[idx], rand)
       IN  /\ options' = ch.options
           /\ rand' = ch.state
    /\ pc' = "pick"
    /\ UNCHANGED <<payload, now, elapsed, i, best, seen, items, lessons, idx, slots,
                   unplaced, ran, result>>
    /\ UNCHANGED produced
    /\ UNCHANGED nonGenVars

\* faulty variant: the option is drawn from a global random source, not from
\* the generator of the attempt
PickStepGlobalRandom ==
    /\ pc = "pick"
    /\ IF Len(options) = 0
       THEN /\ unplaced' = unplaced + 1
            /\ UNCHANGED <<slots, rand>>
       ELSE \E r \in 1..Len(options) :
                /\ slots' = [slots EXCEPT ![options[r].key] = options[r].value]
                /\ rand' = NextRngState(rand)
                /\ UNCHANGED unplaced
    /\ idx' = idx + 1
    /\ pc' = "choose"
    /\ UNCHANGED <<payload, now, elapsed, i, best, seen, items, lessons, options, ran,
                   result>>
    /\ UNCHANGED produced
    /\ UNCHANGED nonGenVars

\* faulty variant: a lesson without options is skipped without being counted
PickStepForgetsCount ==
    /\ pc = "pick"
    /\ IF Len(options) = 0
       THEN UNCHANGED <<slots, rand, unplaced>>
       ELSE LET s2 == NextRngState(rand)
                pick == options[RandBelow(s2, Len(options)) + 1]
            IN  /\ slots' = [slots EXCEPT ![pick.key] = pick.value]
                /\ rand' = s2
                /\ UNCHANGED unplaced
    /\ idx' = idx + 1
    /\ pc' = "choose"
    /\ UNCHANGED <<payload, now, elapsed, i, best, seen, items, lessons, options, ran,
                   result>>
    /\ UNCHANGED produced
    /\ UNCHANGED nonGenVars

\* no option: count the lesson as unplaced; otherwise commit a random option
PickStep ==
    /\ pc = "pick"
    /\ IF Len(options) = 0
       THEN /\ unplaced' = unplaced + 1
            /\ UNCHANGED <<slots, rand>>
       ELSE LET s2 == NextRngState(rand)
                pick == options[RandBelow(s2, Len(options)) + 1]
            IN  /\ slots' = [slots EXCEPT ![pick.key] = pick.value]
                /\ rand' = s2
                /\ UNCHANGED unplaced
    /\ idx' = idx + 1
    /\ pc' = "choose"
    /\ UNCHANGED <<payload, now, elapsed, i, best, seen, items, lessons, options, ran,
                   result>>
    /\ UNCHANGED produced
    /\ UNCHANGED nonGenVars

\* faulty variant: the pool is cut only when it exceeds keep by two
pushCandidateLatePop(pool, candidate, keep) ==
    LET sorted == sortBest(Append(pool, candidate))
    IN  IF Len(sorted) > keep + 1 THEN SubSeq(sorted, 1, Len(sorted) - 1) ELSE sorted

\* faulty variant: the first entry of the sorted pool is evicted
pushCandidateEvictsFirst(pool, candidate, keep) ==
    LET sorted == sortBest(Append(pool, candidate))
    IN  IF Len(sorted) > keep THEN Tail(sorted) ELSE sorted

\* faulty variant: the pool is cut as soon as it holds keep entries
pushCandidateEarlyPop(pool, candidate, keep) ==
    LET sorted == sortBest(Append(pool, candidate))
    IN  IF Len(sorted) >= keep THEN SubSeq(sorted, 1, Len(sorted) - 1) ELSE sorted

\* the pool after one more candidate: push, sort, pop beyond keep
pushCandidate(pool, candidate, keep) ==
    LET sorted == sortBest(Append(pool, candidate))
    IN  IF Len(sorted) > keep THEN SubSeq(sorted, 1, Len(sorted) - 1) ELSE sorted

\* faulty variant: only the signature of an unplaced-free grid is looked up
isDuplicateNever(seenSet, signature) == signature \in {}

\* seen.has(signature)
isDuplicate(seenSet, signature) == signature \in seenSet

\* the candidate an attempt makes
CandidateSchedule(id, score, unplacedCount, grid) ==
    [id |-> id, score |-> score, unplaced |-> unplacedCount, slots |-> grid]

\* the attempt returns: score it, drop a duplicate, else pool it
FinishAttempt ==
    /\ pc = "choose"
    /\ idx > Len(lessons)
    /\ \E score \in {scoreSchedule(payload.data, slots, unplaced)},
          signature \in {signatureOf(payload.data, slots)} :
        IF isDuplicate(seen, signature)
        THEN UNCHANGED <<seen, best>>
        ELSE /\ seen' = seen \cup {signature}
             /\ \E candidate \in {CandidateSchedule(<<"cand", i>>, score, unplaced, slots)} :
                    best' = pushCandidate(best, candidate, payload.keep)
    /\ produced' = produced \cup {[slots |-> slots, unplaced |-> unplaced]}
    /\ i' = i + 1
    /\ pc' = "loop"
    /\ UNCHANGED <<payload, now, elapsed, rand, items, lessons, idx, slots, unplaced,
                   options, ran, result>>
    /\ UNCHANGED nonGenVars

\* return best
Return ==
    /\ pc = "loop"
    /\ i >= payload.attempts
    /\ result' = best
    /\ pc' = "done"
    /\ UNCHANGED <<payload, now, elapsed, i, best, seen, rand, items, lessons, idx, slots,
                   unplaced, options, ran>>
    /\ UNCHANGED produced
    /\ UNCHANGED nonGenVars

Next == StartAttempt \/ ChooseStep \/ PickStep \/ FinishAttempt \/ Return

Spec == Init /\ [][Next]_vars

\* the shape with two classes
FreeShape == CHOOSE sh \in Shapes : Len(sh.classes) = 2

\* calls without locked cells: two classes that both prefer room r1, with
\* the live grid empty or filled
FreePayloads ==
    { [data |-> [days |-> FreeShape.days, periods |-> FreeShape.periods,
                 classes |-> FreeShape.classes, teachers |-> Teachers,
                 requirements |-> <<r, q>>, teacherBlocked |-> blocked,
                 slots |-> grid],
       lockedSlots |-> <<>>, keep |-> MaxKeep, attempts |-> MaxAttempts] :
        r \in FirstRequirements,
        q \in {sq \in SecondRequirements(FreeShape) :
                    sq.classId = "c2" /\ sq.preferredRoomId = "r1"},
        blocked \in Blocklists(FreeShape),
        grid \in {<<>>} \cup {lg.slots : lg \in LockedGrids(FreeShape)} }

FreeInit ==
    /\ payload \in FreePayloads
    /\ now \in StartTimes
    /\ elapsed = 0
    /\ pc = "loop"
    /\ i = 0
    /\ best = <<>>
    /\ seen = {}
    /\ rand = createRng(0)
    /\ items = <<>>
    /\ lessons = <<>>
    /\ idx = 1
    /\ slots = <<>>
    /\ unplaced = 0
    /\ options = <<>>
    /\ ran = 0
    /\ result = <<>>
    /\ produced = {}
    /\ TimeIdle
    /\ TwinIdle
    /\ AppIdle

FreeSpec == FreeInit /\ [][Next]_vars

\* the calls for a one-day timetable with a single requirement and no
\* blocked teacher
TermInit ==
    /\ Init
    /\ Len(payload.data.days) = 1
    /\ Len(payload.data.requirements) = 1
    /\ \A t \in DOMAIN payload.data.teacherBlocked : payload.data.teacherBlocked[t] = {}

\* the loop of generateCandidates is never suspended
FairSpec == TermInit /\ [][Next]_vars /\ WF_vars(Next)

(***************************************************************************)
(* buildComputedPeriods, with its rebalancing loop one iteration at a time *)
(***************************************************************************)
TimeInit ==
    /\ GenIdle
    /\ TwinIdle
    /\ AppIdle
    /\ timeCall \in TimeCalls
    /\ timePc = "call"
    /\ intervals = <<>>
    /\ counts = <<>>
    /\ ri = 1
    /\ changed = FALSE
    /\ computed = BuildResult(<<>>, undefined)

\* validation, the intervals and the first allocation
BuildStart ==
    /\ timePc = "call"
    /\ \E error \in {validateBreaks(timeCall.breaks, timeCall.dayStartTime,
                                     timeCall.dayEndTime)},
          found \in {buildIntervals(timeCall.breaks, parseHHMM(timeCall.dayStartTime),
                                    parseHHMM(timeCall.dayEndTime))},
          needed \in {timeCall.periodCount * minPeriodMinutes} :
           IF error # nullString
           THEN /\ computed' = BuildResult(<<>>, error)
                /\ timePc' = "returned"
                /\ UNCHANGED <<intervals, counts>>
           ELSE IF timeCall.periodCount <= 0
           THEN /\ computed' = BuildResult(<<>>, "Periods per day must be at least 1.")
                /\ timePc' = "returned"
                /\ intervals' = found
                /\ UNCHANGED counts
           ELSE IF totalInstruction(found) < needed
           THEN /\ computed' = BuildResult(<<>>,
                        "Not enough instructional minutes. Need at least "
                            \o ToString(needed) \o " minutes.")
                /\ timePc' = "returned"
                /\ intervals' = found
                /\ UNCHANGED counts
           ELSE /\ intervals' = found
                /\ counts' = allocateCounts(found, timeCall.periodCount)
                /\ timePc' = "rebalance"
                /\ UNCHANGED computed
    /\ ri' = 1
    /\ changed' = FALSE
    /\ UNCHANGED <<timeCall, nonTimeVars>>

\* faulty variant: the length test is left out, no period ever moves
RebalanceStepNeverMoves ==
    /\ timePc = "rebalance"
    /\ ri <= Len(counts)
    /\ ri' = ri + 1
    /\ UNCHANGED <<counts, changed, computed, timePc>>
    /\ UNCHANGED <<timeCall, intervals, nonTimeVars>>

\* one iteration of the for loop inside while (changed)
RebalanceStep ==
    /\ timePc = "rebalance"
    /\ ri <= Len(counts)
    /\ IF counts[ri] <= 0 \/ intervalLength(intervals[ri]) >= minPeriodMinutes * counts[ri]
       THEN /\ ri' = ri + 1
            /\ UNCHANGED <<counts, changed, computed, timePc>>
       ELSE LET taken == [counts EXCEPT ![ri] = @ - 1]
                target == rebalanceTarget(intervals, taken)
            IN  IF target > 0
                THEN /\ counts' = [taken EXCEPT ![target] = @ + 1]
                     /\ changed' = TRUE
                     /\ ri' = ri + 1
                     /\ UNCHANGED <<computed, timePc>>
                ELSE /\ computed' = BuildResult(<<>>,
                            "Break layout leaves no valid period split (min period 20 min).")
                     /\ timePc' = "returned"
                     /\ UNCHANGED <<counts, changed, ri>>
    /\ UNCHANGED <<timeCall, intervals, nonTimeVars>>

\* the for loop is through: another pass if a period moved, else go on
RebalanceNextPass ==
    /\ timePc = "rebalance"
    /\ ri > Len(counts)
    /\ IF changed
       THEN /\ changed' = FALSE
            /\ ri' = 1
            /\ UNCHANGED timePc
       ELSE /\ timePc' = "emit"
            /\ UNCHANGED <<changed, ri>>
    /\ UNCHANGED <<timeCall, intervals, counts, computed, nonTimeVars>>

\* the periods are written out and counted
EmitPeriods ==
    /\ timePc = "emit"
    /\ LET out == emitPeriods(intervals, counts, 1, <<>>)
       IN  computed' =
             IF Len(out) # timeCall.periodCount
             THEN BuildResult(<<>>, "Failed to compute period layout for given breaks.")
             ELSE BuildResult(out, undefined)
    /\ timePc' = "returned"
    /\ UNCHANGED <<timeCall, intervals, counts, ri, changed, nonTimeVars>>

TimeNext == BuildStart \/ RebalanceStep \/ RebalanceNextPass \/ EmitPeriods

TimeSpec == TimeInit /\ [][TimeNext]_vars

\* the calls with valid breaks that ask for at least one period
ValidInit ==
    /\ TimeInit
    /\ validateBreaks(timeCall.breaks, timeCall.dayStartTime, timeCall.dayEndTime)
          = nullString
    /\ timeCall.periodCount >= 1

\* buildComputedPeriods runs to its return once it is called
TimeFairSpec == ValidInit /\ [][TimeNext]_vars /\ WF_vars(TimeNext)

(***************************************************************************)
(* seededAttempt called twice with the same data, locked slots and seed,   *)
(* one execution after the other                                           *)
(***************************************************************************)
\* the configurations and locked sets of the direct calls
TwinPayloads == {p \in Payloads : p.keep = 0 /\ p.attempts = 0}

Seeds == {32, 129}

TwinInit ==
    /\ payload \in TwinPayloads
    /\ seed \in Seeds
    /\ trials = <<>>
    /\ now \in StartTimes
    /\ elapsed = 0
    /\ pc = "call"
    /\ i = 0
    /\ best = <<>>
    /\ seen = {}
    /\ rand = createRng(0)
    /\ items = <<>>
    /\ lessons = <<>>
    /\ idx = 1
    /\ slots = <<>>
    /\ unplaced = 0
    /\ options = <<>>
    /\ ran = 0
    /\ result = <<>>
    /\ produced = {}
    /\ TimeIdle
    /\ AppIdle

\* seededAttempt(data, seed, lockedSlots) up to its lesson loop; the clock
\* may have moved on since the execution before
TwinStart ==
    /\ pc = "call"
    /\ Len(trials) < 2
    /\ items' = buildLessonItems(payload.data)
    /\ LET sh == shuffle(items', createRng(seed))
       IN  /\ lessons' = sh.out
           /\ rand' = sh.state
    /\ \E tick \in 0..(MaxTick - elapsed) :
        /\ now' = now + tick
        /\ elapsed' = elapsed + tick
    /\ slots' = initialSlots(payload.data, payload.lockedSlots)
    /\ unplaced' = 0
    /\ idx' = 1
    /\ options' = <<>>
    /\ ran' = ran + 1
    /\ pc' = "choose"
    /\ UNCHANGED <<payload, i, best, seen, result, seed, trials, timeVars, appVars,
                   produced>>

\* return { slots, unplaced }
TwinReturn ==
    /\ pc = "choose"
    /\ idx > Len(lessons)
    /\ trials' = Append(trials, [slots |-> slots, unplaced |-> unplaced])
    /\ pc' = "call"
    /\ UNCHANGED <<payload, now, elapsed, i, best, seen, rand, items, lessons, idx, slots,
                   unplaced, options, ran, result, seed, timeVars, appVars,
                   produced>>

TwinNext == TwinStart \/ ChooseStep \/ PickStep \/ TwinReturn

TwinSpec == TwinInit /\ [][TwinNext]_vars

(***************************************************************************)
(* The editor: the store (useTimetableStore), the Generate panel of        *)
(* SchedulingTools and the generator worker.  A handler of the main thread *)
(* runs to completion; the worker runs generateCandidates in parallel, one *)
(* step of its loops at a time.                                            *)
(***************************************************************************)
maxHistoryDepth == 80

\* the timetable the editor holds at the start
AppShape ==
    [days |-> <<"Mon">>,
     periods |-> <<Period("p1", FALSE), Period("p2", FALSE)>>,
     classes |-> <<"c1">>]

\* the cells the user selects in the grid
SelectedKeys == {slotKey("Mon", "p2", "c1")}

\* the requirement addRequirement makes: first class, first subject, one
\* period, the first teacher
NewRequirement ==
    [classId |-> AppShape.classes[1], subjectId |-> "s1", periodsPerCycle |-> 1,
     allowedTeacherIds |-> <<Teachers[1]>>, preferredRoomId |-> undefined]

\* what the keep and attempts inputs of the panel hold
KeepInputs == {2}
AttemptInputs == {2}

\* the values a cell is edited to
EditValues == {SlotValue("s2", "t2", undefined)}

\* the teacher and time toggled in the availability panel
BlockToggles == {<<"t1", <<"Mon", "p1">>>>}

\* the ids applyCandidate is called with besides those of the stored list
UnknownIds == {<<"cand", 99>>}

\* a Worker: the payload posted to it, the messages it posted back that the
\* main thread has not handled yet, and how many messages it has posted
NewWorker(message) ==
    [status |-> "queued", payload |-> message, outbox |-> <<>>, sent |-> 0]

\* worker.terminate(): the worker stops and its port message queue is emptied
terminate(ws, w) ==
    IF w = 0 THEN ws
    ELSE [ws EXCEPT ![w] = [@ EXCEPT !.status = "terminated", !.outbox = <<>>]]

\* pushSlotHistory
pushSlotHistory(runtime, grid) ==
    LET historyPast == Append(runtime.historyPast, grid)
    IN  [runtime EXCEPT
            !.historyPast =
                IF Len(historyPast) > maxHistoryDepth
                THEN SubSeq(historyPast, Len(historyPast) - maxHistoryDepth + 1,
                            Len(historyPast))
                ELSE historyPast,
            !.historyFuture = <<>>]

\* generatedCandidates.find((item) => item.id === id), 0 when there is none
findCandidate(list, id) ==
    IF \E k \in 1..Len(list) : list[k].id = id
    THEN CHOOSE k \in 1..Len(list) :
            list[k].id = id /\ \A j \in 1..(k - 1) : list[j].id # id
    ELSE 0

Op(name, arg) == [op |-> name, arg |-> arg]

\* an operation that changed the grid, with the grid before and after it
SlotOp(name, arg, before, after) ==
    [op |-> name, arg |-> arg, before |-> before, after |-> after]

AppInit ==
    /\ GenIdle
    /\ TimeIdle
    /\ TwinIdle
    /\ stateData \in
        { [days |-> AppShape.days, periods |-> AppShape.periods,
           classes |-> AppShape.classes, teachers |-> Teachers,
           requirements |-> reqs,
           teacherBlocked |-> [t \in {"t1", "t2"} |-> {}],
           slots |-> <<>>] : reqs \in {<<>>, <<NewRequirement>>} }
    /\ stateRuntime =
        [lockedSlots |-> <<>>, generatedCandidates |-> <<>>, generating |-> FALSE,
         toast |-> "", historyPast |-> <<>>, historyFuture |-> <<>>]
    /\ workerRef = 0
    /\ workers = <<>>
    /\ running = 0
    /\ edits = 0
    /\ lastOp = Op("open", null)

\* the generator variables when no worker is executing generateCandidates
GenReset ==
    /\ payload' = null
    /\ now' = 0
    /\ elapsed' = 0
    /\ pc' = "idle"
    /\ i' = 0
    /\ best' = <<>>
    /\ seen' = {}
    /\ rand' = createRng(0)
    /\ items' = <<>>
    /\ lessons' = <<>>
    /\ idx' = 1
    /\ slots' = <<>>
    /\ unplaced' = 0
    /\ options' = <<>>
    /\ ran' = 0
    /\ result' = <<>>
    /\ produced' = {}

\* the execution a terminated worker was in the middle of is aborted
AbortIfRunning(w) ==
    IF w # 0 /\ running = w
    THEN GenReset /\ running' = 0
    ELSE UNCHANGED <<genVars, running>>

\* faulty variant: the worker of the request before is left running
runGenerateKeepsOld ==
    /\ IF Len(stateData.requirements) = 0
       THEN /\ stateRuntime' = [stateRuntime EXCEPT !.toast = "Add requirements first."]
            /\ UNCHANGED <<stateData, workerRef, workers, running, genVars>>
       ELSE /\ Len(workers) < MaxRequests
            /\ \E keep \in KeepInputs, attempts \in AttemptInputs :
                workers' = Append(workers,
                    NewWorker([data |-> stateData,
                               lockedSlots |-> stateRuntime.lockedSlots,
                               keep |-> keep, attempts |-> attempts]))
            /\ workerRef' = Len(workers) + 1
            /\ stateRuntime' = [stateRuntime EXCEPT !.generating = TRUE]
            /\ UNCHANGED <<genVars, running>>
            /\ UNCHANGED stateData
    /\ lastOp' = Op("runGenerate", null)
    /\ UNCHANGED <<edits, timeVars, twinVars>>

\* runGenerate: refuse without requirements; otherwise terminate the worker
\* of the request before, create a worker, post it the payload
runGenerate ==
    /\ IF Len(stateData.requirements) = 0
       THEN /\ stateRuntime' = [stateRuntime EXCEPT !.toast = "Add requirements first."]
            /\ UNCHANGED <<stateData, workerRef, workers, running, genVars>>
       ELSE /\ Len(workers) < MaxRequests
            /\ \E keep \in KeepInputs, attempts \in AttemptInputs :
                workers' = Append(terminate(workers, workerRef),
                    NewWorker([data |-> stateData,
                               lockedSlots |-> stateRuntime.lockedSlots,
                               keep |-> keep, attempts |-> attempts]))
            /\ workerRef' = Len(workers) + 1
            /\ stateRuntime' = [stateRuntime EXCEPT !.generating = TRUE]
            /\ AbortIfRunning(workerRef)
            /\ UNCHANGED stateData
    /\ lastOp' = Op("runGenerate", null)
    /\ UNCHANGED <<edits, timeVars, twinVars>>

\* the cleanup of the panel when it is unmounted; a panel mounted again has
\* a fresh workerRef
unmountCleanup ==
    /\ workerRef # 0
    /\ workers' = terminate(workers, workerRef)
    /\ AbortIfRunning(workerRef)
    /\ workerRef' = 0
    /\ lastOp' = Op("unmount", null)
    /\ UNCHANGED <<stateData, stateRuntime, edits, timeVars, twinVars>>

\* faulty variant: the worker reads the live state when it starts
WorkerReceiveReadsLive ==
    \E w \in 1..Len(workers) :
        /\ workers[w].status = "queued"
        /\ pc = "idle"
        /\ payload' = [workers[w].payload EXCEPT
                           !.data = stateData, !.lockedSlots = stateRuntime.lockedSlots]
        /\ now' \in StartTimes
        /\ pc' = "loop"
        /\ running' = w
        /\ workers' = [workers EXCEPT ![w].status = "running"]
        /\ UNCHANGED <<elapsed, i, best, seen, rand, items, lessons, idx, slots, unplaced,
                       options, ran, result, produced>>
        /\ UNCHANGED <<stateData, stateRuntime, workerRef, edits, lastOp, timeVars,
                       twinVars>>

\* self.onmessage of the worker: generateCandidates(event.data.payload) begins
WorkerReceive ==
    \E w \in 1..Len(workers) :
        /\ workers[w].status = "queued"
        /\ pc = "idle"
        /\ payload' = workers[w].payload
        /\ now' \in StartTimes
        /\ pc' = "loop"
        /\ running' = w
        /\ workers' = [workers EXCEPT ![w].status = "running"]
        /\ UNCHANGED <<elapsed, i, best, seen, rand, items, lessons, idx, slots, unplaced,
                       options, ran, result, produced>>
        /\ UNCHANGED <<stateData, stateRuntime, workerRef, edits, lastOp, timeVars,
                       twinVars>>

\* self.postMessage({ type: 'result', candidates })
WorkerPost ==
    /\ pc = "done"
    /\ running # 0
    /\ workers' = [workers EXCEPT ![running] =
            [@ EXCEPT !.status = "posted",
                      !.outbox = Append(@, [type |-> "result", candidates |-> result]),
                      !.sent = @ + 1]]
    /\ GenReset
    /\ running' = 0
    /\ UNCHANGED <<stateData, stateRuntime, workerRef, edits, lastOp, timeVars, twinVars>>

\* worker.onmessage of the main thread: store the candidates, terminate the
\* worker, clear workerRef
OnMessage ==
    \E w \in 1..Len(workers) :
        /\ workers[w].outbox # <<>>
        /\ LET event == Head(workers[w].outbox)
           IN  IF event.type # "result"
               THEN /\ workers' = [workers EXCEPT ![w].outbox = Tail(@)]
                    /\ UNCHANGED <<stateRuntime, workerRef>>
               ELSE /\ stateRuntime' =
                        [stateRuntime EXCEPT
                            !.generatedCandidates = event.candidates,
                            !.generating = FALSE,
                            !.toast = "Generated " \o ToString(Len(event.candidates))
                                         \o " candidate(s)."]
                    /\ workers' = terminate(workers, w)
                    /\ workerRef' = 0
        /\ lastOp' = Op("onmessage", w)
        /\ UNCHANGED <<stateData, running, edits, genVars, timeVars, twinVars>>

\* addRequirement
addRequirement ==
    /\ edits < MaxEdits
    /\ stateData' = [stateData EXCEPT !.requirements = Append(@, NewRequirement)]
    /\ edits' = edits + 1
    /\ lastOp' = Op("addRequirement", null)
    /\ UNCHANGED <<stateRuntime, workerRef, workers, running, genVars, timeVars, twinVars>>

\* toggleTeacherBlocked(teacherId, key)
toggleTeacherBlocked ==
    /\ edits < MaxEdits
    /\ \E toggle \in BlockToggles :
        LET teacherId == toggle[1]
            key == toggle[2]
            existing == stateData.teacherBlocked[teacherId]
        IN  /\ stateData' = [stateData EXCEPT !.teacherBlocked[teacherId] =
                    IF key \in existing THEN existing \ {key} ELSE existing \cup {key}]
            /\ lastOp' = Op("toggleTeacherBlocked", toggle)
    /\ edits' = edits + 1
    /\ UNCHANGED <<stateRuntime, workerRef, workers, running, genVars, timeVars, twinVars>>

\* toggleLock of the inspector, for the selected cell
toggleLock ==
    /\ edits < MaxEdits
    /\ \E selectedKey \in SelectedKeys :
        LET locked == stateRuntime.lockedSlots
            exists == \E k \in 1..Len(locked) : locked[k] = selectedKey
        IN  /\ stateRuntime' = [stateRuntime EXCEPT !.lockedSlots =
                    IF exists THEN SelectSeq(locked, LAMBDA k : k # selectedKey)
                    ELSE Append(locked, selectedKey)]
            /\ lastOp' = Op("toggleLock", selectedKey)
    /\ edits' = edits + 1
    /\ UNCHANGED <<stateData, workerRef, workers, running, genVars, timeVars, twinVars>>

\* upsertSlot(key, value)
upsertSlot ==
    /\ edits < MaxEdits
    /\ timePc = "idle"
    /\ \E key \in SelectedKeys, value \in EditValues :
        /\ stateData' = [stateData EXCEPT !.slots = (key :> value) @@ @]
        /\ lastOp' = SlotOp("upsertSlot", key, stateData.slots,
                            (key :> value) @@ stateData.slots)
    /\ stateRuntime' = pushSlotHistory(stateRuntime, stateData.slots)
    /\ edits' = edits + 1
    /\ UNCHANGED <<workerRef, workers, running, genVars, timeVars, twinVars>>

\* faulty variant: the candidate's lessons are laid over the live grid
applyCandidateMerges ==
    /\ edits < MaxEdits
    /\ timePc = "idle"
    /\ \E id \in {stateRuntime.generatedCandidates[k].id :
                    k \in 1..Len(stateRuntime.generatedCandidates)} \cup UnknownIds :
        LET list == stateRuntime.generatedCandidates
            found == findCandidate(list, id)
        IN  /\ IF found = 0
               THEN UNCHANGED <<stateData, stateRuntime>>
               ELSE /\ stateData' = [stateData EXCEPT !.slots =
                            [key \in DOMAIN @ \cup DOMAIN list[found].slots |->
                                IF Lookup(list[found].slots, key) # null
                                THEN list[found].slots[key]
                                ELSE Lookup(@, key)]]
                    /\ stateRuntime' =
                        [pushSlotHistory(stateRuntime, stateData.slots) EXCEPT
                            !.toast = "Candidate applied."]
            /\ lastOp' = IF found = 0 THEN Op("applyCandidate", id)
                          ELSE SlotOp("applyCandidate", id, stateData.slots,
                                      stateData'.slots)
    /\ edits' = edits + 1
    /\ UNCHANGED <<workerRef, workers, running, genVars, timeVars, twinVars>>

\* applyCandidate(id)
applyCandidate ==
    /\ edits < MaxEdits
    /\ timePc = "idle"
    /\ \E id \in {stateRuntime.generatedCandidates[k].id :
                    k \in 1..Len(stateRuntime.generatedCandidates)} \cup UnknownIds :
        LET list == stateRuntime.generatedCandidates
            found == findCandidate(list, id)
        IN  /\ IF found = 0
               THEN UNCHANGED <<stateData, stateRuntime>>
               ELSE /\ stateData' = [stateData EXCEPT !.slots = list[found].slots]
                    /\ stateRuntime' =
                        [pushSlotHistory(stateRuntime, stateData.slots) EXCEPT
                            !.toast = "Candidate applied."]
            /\ lastOp' = IF found = 0 THEN Op("applyCandidate", id)
                          ELSE SlotOp("applyCandidate", id, stateData.slots,
                                      list[found].slots)
    /\ edits' = edits + 1
    /\ UNCHANGED <<workerRef, workers, running, genVars, timeVars, twinVars>>

AppNext ==
    \/ runGenerate \/ unmountCleanup \/ WorkerReceive \/ StartAttempt \/ ChooseStep
    \/ PickStep \/ FinishAttempt \/ Return \/ WorkerPost \/ OnMessage
    \/ addRequirement \/ toggleTeacherBlocked \/ toggleLock \/ upsertSlot
    \/ applyCandidate

AppSpec == AppInit /\ [][AppNext]_vars

(***************************************************************************)
(* A generation request from its acceptance to the delivery of its result, *)
(* with the Reset button of the footer.  The worker and the event loop of  *)
(* the main thread keep running: their steps are weakly fair, the clicks   *)
(* of the user are not.                                                    *)
(***************************************************************************)
\* createEmptyData()
createEmptyData ==
    [days |-> <<>>, periods |-> <<>>, classes |-> <<>>, teachers |-> <<>>,
     requirements |-> <<>>, teacherBlocked |-> <<>>, slots |-> <<>>]

runtimeDefaults ==
    [lockedSlots |-> <<>>, generatedCandidates |-> <<>>, generating |-> FALSE,
     toast |-> "", historyPast |-> <<>>, historyFuture |-> <<>>]

\* resetApp of App.tsx: resetAll(), then the toast
resetApp ==
    /\ edits < MaxEdits
    /\ stateData' = createEmptyData
    /\ stateRuntime' = [runtimeDefaults EXCEPT !.toast = "Reset complete."]
    /\ edits' = edits + 1
    /\ lastOp' = Op("resetApp", null)
    /\ UNCHANGED <<workerRef, workers, running, genVars, timeVars, twinVars>>

\* the steps of the generator worker
WorkerNext ==
    \/ WorkerReceive \/ StartAttempt \/ ChooseStep \/ PickStep \/ FinishAttempt
    \/ Return \/ WorkerPost

GenerateNext ==
    \/ runGenerate \/ WorkerReceive \/ StartAttempt \/ ChooseStep \/ PickStep
    \/ FinishAttempt \/ Return \/ WorkerPost \/ OnMessage \/ addRequirement
    \/ resetApp

\* a step of the worker changes the generator variables or the worker, the
\* handling of a message empties the outbox of its worker
GenerateFairSpec ==
    /\ AppInit
    /\ [][GenerateNext]_vars
    /\ WF_<<genVars, workers, running>>(WorkerNext)
    /\ WF_<<workers, workerRef>>(OnMessage)

(***************************************************************************)
(* The store on its own: the operations on the grid with their history,    *)
(* the clipboard, undo and redo, and setTimeModel.  setTimeModel runs      *)
(* buildComputedPeriods step by step; being one synchronous call, no other *)
(* operation of the store runs before it has returned.                     *)
(***************************************************************************)
\* state.runtime.selectedSlotKey = ''
emptyKey == <<>>

\* the cells a lesson is dragged from and dropped on
DragKeys == {slotKey("Mon", "p1", "c1"), slotKey("Mon", "p2", "c1")}

\* cloneSlots
cloneSlots(grid) ==
    [key \in DOMAIN grid |-> IF grid[key] # null THEN grid[key] ELSE null]

\* the grid the store holds at the start, and the grid before it
StartGrid == slotKey("Mon", "p1", "c1") :> SlotValue("s1", "t1", "r1")
EarlierGrid == slotKey("Mon", "p1", "c1") :> null

\* an undo stack that is full: the cell was set and cleared in turn
FullHistory ==
    [k \in 1..maxHistoryDepth |-> IF k % 2 = 1 THEN StartGrid ELSE EarlierGrid]

\* the candidate list a generation stored
StoredCandidates ==
    <<CandidateSchedule(<<"cand", 0>>, 7, 0,
        (slotKey("Mon", "p1", "c1") :> null)
            @@ (slotKey("Mon", "p2", "c1") :> SlotValue("s1", "t1", undefined))),
      CandidateSchedule(<<"cand", 1>>, 7, 0,
        (slotKey("Mon", "p1", "c1") :> SlotValue("s1", "t1", undefined))
            @@ (slotKey("Mon", "p2", "c1") :> null))>>

\* the time models the dialog submits: one that is accepted, one that the
\* rebalancing gives up on, one with too few minutes, one with a bad break
StoreCalls ==
    {TimeCall(HHMM(8, 0), HHMM(9, 10), 2,
              <<SchoolBreak("Lunch", HHMM(8, 30), HHMM(8, 40))>>),
     TimeCall(HHMM(8, 0), HHMM(9, 10), 3,
              <<SchoolBreak("Lunch", HHMM(8, 10), HHMM(8, 20))>>),
     TimeCall(HHMM(8, 0), HHMM(8, 40), 3, <<>>),
     TimeCall(HHMM(8, 0), HHMM(9, 40), 2,
              <<SchoolBreak("Lunch", HHMM(8, 30), HHMM(8, 10))>>)}

StoreInit ==
    /\ GenIdle
    /\ TimeIdle
    /\ TwinIdle
    /\ stateData =
        [days |-> AppShape.days, periods |-> AppShape.periods,
         classes |-> AppShape.classes, teachers |-> Teachers,
         requirements |-> <<NewRequirement>>,
         teacherBlocked |-> [t \in {"t1", "t2"} |->
                                IF t = "t1" THEN {<<"Mon", "p1">>} ELSE {}],
         slots |-> StartGrid,
         dayStartTime |-> HHMM(8, 0), dayEndTime |-> HHMM(8, 40),
         periodCount |-> 2, breaks |-> <<>>]
    /\ stateRuntime \in
        { [lockedSlots |-> <<slotKey("Mon", "p1", "c1")>>,
           generatedCandidates |-> StoredCandidates, generating |-> FALSE,
           toast |-> "", historyPast |-> past, historyFuture |-> <<>>,
           selectedSlotKey |-> slotKey("Mon", "p2", "c1"),
           clipboardSlot |-> null] : past \in {<<>>, FullHistory} }
    /\ workerRef = 0
    /\ workers = <<>>
    /\ running = 0
    /\ edits = 0
    /\ lastOp = Op("open", null)

\* setTimeModel(dayStartTime, dayEndTime, periodCount, breaks): the call of
\* buildComputedPeriods
setTimeModelCall ==
    /\ edits < MaxEdits
    /\ timePc = "idle"
    /\ timeCall' \in StoreCalls
    /\ timePc' = "call"
    /\ UNCHANGED <<intervals, counts, ri, changed, computed, nonTimeVars>>

\* faulty variant: the submitted model is stored before the error is looked at
setTimeModelReturnStoresFirst ==
    /\ timePc = "returned"
    /\ stateData' =
        [stateData EXCEPT !.slots = <<>>, !.teacherBlocked = <<>>,
                          !.dayStartTime = timeCall.dayStartTime,
                          !.dayEndTime = timeCall.dayEndTime,
                          !.periodCount = timeCall.periodCount,
                          !.breaks = timeCall.breaks,
                          !.periods = computed.periods]
    /\ IF computed.error # undefined
       THEN /\ stateRuntime' = [stateRuntime EXCEPT !.toast = computed.error]
            /\ lastOp' = Op("setTimeModel", [ok |-> FALSE, error |-> computed.error])
       ELSE /\ stateRuntime' =
                [stateRuntime EXCEPT !.toast = "Time model updated.",
                                     !.selectedSlotKey = emptyKey,
                                     !.lockedSlots = <<>>]
            /\ lastOp' = Op("setTimeModel", [ok |-> TRUE])
    /\ timeCall' = TimeCall(HHMM(8, 0), HHMM(8, 0), 0, <<>>)
    /\ timePc' = "idle"
    /\ intervals' = <<>>
    /\ counts' = <<>>
    /\ ri' = 1
    /\ changed' = FALSE
    /\ computed' = BuildResult(<<>>, undefined)
    /\ edits' = edits + 1
    /\ UNCHANGED <<workerRef, workers, running, genVars, twinVars>>

\* setTimeModel: what it does with the value buildComputedPeriods returned
setTimeModelReturn ==
    /\ timePc = "returned"
    /\ IF computed.error # undefined
       THEN /\ stateRuntime' = [stateRuntime EXCEPT !.toast = computed.error]
            /\ lastOp' = Op("setTimeModel", [ok |-> FALSE, error |-> computed.error])
            /\ UNCHANGED stateData
       ELSE /\ stateData' =
                [stateData EXCEPT !.slots = <<>>, !.teacherBlocked = <<>>,
                                  !.dayStartTime = timeCall.dayStartTime,
                                  !.dayEndTime = timeCall.dayEndTime,
                                  !.periodCount = timeCall.periodCount,
                                  !.breaks = timeCall.breaks,
                                  !.periods = computed.periods]
            /\ stateRuntime' =
                [stateRuntime EXCEPT !.toast = "Time model updated.",
                                     !.selectedSlotKey = emptyKey,
                                     !.lockedSlots = <<>>]
            /\ lastOp' = Op("setTimeModel", [ok |-> TRUE])
    /\ timeCall' = TimeCall(HHMM(8, 0), HHMM(8, 0), 0, <<>>)
    /\ timePc' = "idle"
    /\ intervals' = <<>>
    /\ counts' = <<>>
    /\ ri' = 1
    /\ changed' = FALSE
    /\ computed' = BuildResult(<<>>, undefined)
    /\ edits' = edits + 1
    /\ UNCHANGED <<workerRef, workers, running, genVars, twinVars>>

\* swapOrMoveSlot(source, target)
swapOrMoveSlot ==
    /\ edits < MaxEdits
    /\ timePc = "idle"
    /\ \E source \in DragKeys, target \in DragKeys :
        IF source = emptyKey \/ target = emptyKey \/ source = target
        THEN /\ lastOp' = Op("swapOrMoveSlot", <<source, target>>)
             /\ UNCHANGED <<stateData, stateRuntime, edits>>
        ELSE \E next \in {(target :> Lookup(stateData.slots, source))
                            @@ (source :> Lookup(stateData.slots, target))
                            @@ stateData.slots} :
             /\ stateData' = [stateData EXCEPT !.slots = next]
             /\ stateRuntime' =
                    [pushSlotHistory(stateRuntime, stateData.slots) EXCEPT
                        !.selectedSlotKey = target]
             /\ lastOp' = SlotOp("swapOrMoveSlot", <<source, target>>,
                                 stateData.slots, next)
             /\ edits' = edits + 1
    /\ UNCHANGED <<workerRef, workers, running, genVars, timeVars, twinVars>>

\* clearSlot(key)
clearSlot ==
    /\ edits < MaxEdits
    /\ timePc = "idle"
    /\ \E key \in SelectedKeys :
        \E nextSlots \in {(key :> null) @@ stateData.slots} :
            /\ stateData' = [stateData EXCEPT !.slots = nextSlots]
            /\ lastOp' = SlotOp("clearSlot", key, stateData.slots, nextSlots)
    /\ stateRuntime' = pushSlotHistory(stateRuntime, stateData.slots)
    /\ edits' = edits + 1
    /\ UNCHANGED <<workerRef, workers, running, genVars, timeVars, twinVars>>

\* copySelectedSlot()
copySelectedSlot ==
    /\ timePc = "idle"
    /\ \E key \in {stateRuntime.selectedSlotKey} :
        stateRuntime' =
            IF key = emptyKey
            THEN [stateRuntime EXCEPT !.toast = "Select a slot first."]
            ELSE IF Lookup(stateData.slots, key) = null
            THEN [stateRuntime EXCEPT !.toast = "Selected slot is empty."]
            ELSE [stateRuntime EXCEPT !.clipboardSlot = stateData.slots[key],
                                      !.toast = "Lesson copied."]
    /\ lastOp' = Op("copySelectedSlot", null)
    /\ UNCHANGED <<stateData, workerRef, workers, running, edits, genVars, timeVars,
                   twinVars>>

\* pasteSelectedSlot()
pasteSelectedSlot ==
    /\ edits < MaxEdits
    /\ timePc = "idle"
    /\ \E key \in {stateRuntime.selectedSlotKey}, copied \in {stateRuntime.clipboardSlot} :
        IF key = emptyKey
        THEN /\ stateRuntime' = [stateRuntime EXCEPT !.toast = "Select a slot first."]
             /\ lastOp' = Op("pasteSelectedSlot", null)
             /\ UNCHANGED <<stateData, edits>>
        ELSE IF copied = null
        THEN /\ stateRuntime' = [stateRuntime EXCEPT !.toast = "Clipboard is empty."]
             /\ lastOp' = Op("pasteSelectedSlot", null)
             /\ UNCHANGED <<stateData, edits>>
        ELSE \E nextSlots \in {(key :> copied) @@ stateData.slots} :
             /\ stateData' = [stateData EXCEPT !.slots = nextSlots]
             /\ stateRuntime' =
                    [pushSlotHistory(stateRuntime, stateData.slots) EXCEPT
                        !.toast = "Lesson pasted."]
             /\ lastOp' = SlotOp("pasteSelectedSlot", key, stateData.slots, nextSlots)
             /\ edits' = edits + 1
    /\ UNCHANGED <<workerRef, workers, running, genVars, timeVars, twinVars>>

\* deleteSelectedSlot()
deleteSelectedSlot ==
    /\ edits < MaxEdits
    /\ timePc = "idle"
    /\ \E key \in {stateRuntime.selectedSlotKey} :
        IF key = emptyKey
        THEN /\ stateRuntime' = [stateRuntime EXCEPT !.toast = "Select a slot first."]
             /\ lastOp' = Op("deleteSelectedSlot", null)
             /\ UNCHANGED <<stateData, edits>>
        ELSE \E nextSlots \in {(key :> null) @@ stateData.slots} :
             /\ stateData' = [stateData EXCEPT !.slots = nextSlots]
             /\ stateRuntime' =
                    [pushSlotHistory(stateRuntime, stateData.slots) EXCEPT
                        !.toast = "Lesson cleared."]
             /\ lastOp' = SlotOp("deleteSelectedSlot", key, stateData.slots, nextSlots)
             /\ edits' = edits + 1
    /\ UNCHANGED <<workerRef, workers, running, genVars, timeVars, twinVars>>

\* what undoSlots and redoSlots leave as the last operation: the grids of the
\* operation they undo or redo, when they follow it directly
HistoryOp(name, stage) ==
    IF lastOp.op \in stage /\ "before" \in DOMAIN lastOp
    THEN SlotOp(name, null, lastOp.before, lastOp.after)
    ELSE Op(name, null)

\* the operations that push the grid on the undo stack
SlotOps ==
    {"upsertSlot", "swapOrMoveSlot", "clearSlot", "applyCandidate",
     "pasteSelectedSlot", "deleteSelectedSlot"}

\* faulty variant: the grid that is left is not kept for redoSlots
undoSlotsDropsCurrent ==
    /\ timePc = "idle"
    /\ Len(stateRuntime.historyFuture) < MaxUndo
    /\ IF Len(stateRuntime.historyPast) = 0
       THEN UNCHANGED <<stateData, stateRuntime>>
       ELSE \E historyPast \in {SubSeq(stateRuntime.historyPast, 1,
                                       Len(stateRuntime.historyPast) - 1)},
               previous \in {stateRuntime.historyPast[Len(stateRuntime.historyPast)]} :
            /\ stateData' = [stateData EXCEPT !.slots = cloneSlots(previous)]
            /\ stateRuntime' =
                [stateRuntime EXCEPT
                    !.historyPast = historyPast,
                    !.historyFuture = Append(@, cloneSlots(previous)),
                    !.toast = "Undo"]
    /\ lastOp' = HistoryOp("undoSlots", SlotOps)
    /\ UNCHANGED <<workerRef, workers, running, edits, genVars, timeVars, twinVars>>

\* undoSlots()
undoSlots ==
    /\ timePc = "idle"
    /\ Len(stateRuntime.historyFuture) < MaxUndo
    /\ IF Len(stateRuntime.historyPast) = 0
       THEN UNCHANGED <<stateData, stateRuntime>>
       ELSE \E historyPast \in {SubSeq(stateRuntime.historyPast, 1,
                                       Len(stateRuntime.historyPast) - 1)},
               previous \in {stateRuntime.historyPast[Len(stateRuntime.historyPast)]} :
            /\ stateData' = [stateData EXCEPT !.slots = cloneSlots(previous)]
            /\ stateRuntime' =
                [stateRuntime EXCEPT
                    !.historyPast = historyPast,
                    !.historyFuture = Append(@, cloneSlots(stateData.slots)),
                    !.toast = "Undo"]
    /\ lastOp' = HistoryOp("undoSlots", SlotOps)
    /\ UNCHANGED <<workerRef, workers, running, edits, genVars, timeVars, twinVars>>

\* redoSlots()
redoSlots ==
    /\ timePc = "idle"
    /\ IF Len(stateRuntime.historyFuture) = 0
       THEN UNCHANGED <<stateData, stateRuntime>>
       ELSE \E historyFuture \in {SubSeq(stateRuntime.historyFuture, 1,
                                         Len(stateRuntime.historyFuture) - 1)},
               next \in {stateRuntime.historyFuture[Len(stateRuntime.historyFuture)]},
               historyPast \in {Append(stateRuntime.historyPast,
                                       cloneSlots(stateData.slots))} :
            /\ stateData' = [stateData EXCEPT !.slots = cloneSlots(next)]
            /\ stateRuntime' =
                [stateRuntime EXCEPT
                    !.historyPast =
                        IF Len(historyPast) > maxHistoryDepth
                        THEN SubSeq(historyPast, Len(historyPast) - maxHistoryDepth + 1,
                                    Len(historyPast))
                        ELSE historyPast,
                    !.historyFuture = historyFuture,
                    !.toast = "Redo"]
    /\ lastOp' = HistoryOp("redoSlots", {"undoSlots"})
    /\ UNCHANGED <<workerRef, workers, running, edits, genVars, timeVars, twinVars>>

StoreNext ==
    \/ upsertSlot \/ swapOrMoveSlot \/ clearSlot \/ applyCandidate
    \/ copySelectedSlot \/ pasteSelectedSlot \/ deleteSelectedSlot
    \/ undoSlots \/ redoSlots
    \/ setTimeModelCall \/ BuildStart \/ RebalanceStep \/ RebalanceNextPass
    \/ EmitPeriods \/ setTimeModelReturn

StoreSpec == StoreInit /\ [][StoreNext]_vars

(***************************************************************************)
(* Vocabulary of the properties                                            *)
(***************************************************************************)
\* every candidate that is in the pool or was returned
Candidates ==
    {best[k] : k \in 1..Len(best)} \cup {result[k] : k \in 1..Len(result)}

\* the grids under consideration: those of the candidates and the grid of
\* the attempt in progress
Grids == {c.slots : c \in Candidates} \cup {slots}

LockedKeys == {payload.lockedSlots[k] : k \in 1..Len(payload.lockedSlots)}

\* the cells of a grid the placer filled: filled cells that are not locked
\* cells carrying their live value
PlacedKeys(grid) ==
    {key \in DOMAIN grid :
        /\ grid[key] # null
        /\ ~(key \in LockedKeys /\ Lookup(payload.data.slots, key) # null)}

SameTime(k1, k2) == k1[1] = k2[1] /\ k1[2] = k2[2]

\* C1: in every candidate grid (and in the grid under construction) a cell
\* filled by the placer never has the teacher of another filled cell of the
\* same day and period, locked or placed.
C1_NoTeacherDoubleBooking ==
    \A grid \in Grids :
        \A key \in PlacedKeys(grid) :
            \A other \in DOMAIN grid :
                (other # key /\ grid[other] # null /\ SameTime(key, other))
                    => grid[other].teacherId # grid[key].teacherId

\* a returned candidate in which a placed lesson runs next to a locked lesson
\* of another class in the same period
C1_Witness ==
    /\ pc = "done"
    /\ \E c \in Candidates :
        \E key \in PlacedKeys(c.slots) :
            \E other \in DOMAIN c.slots \cap LockedKeys :
                /\ other # key
                /\ c.slots[other] # null
                /\ SameTime(key, other)

\* the period ids and days of the timetable
AllTimes ==
    {<<payload.data.days[d], payload.data.periods[p].id>> :
        d \in 1..Len(payload.data.days), p \in 1..Len(payload.data.periods)}

BlockedAt(teacherId, time) ==
    /\ teacherId \in DOMAIN payload.data.teacherBlocked
    /\ time \in payload.data.teacherBlocked[teacherId]

\* scenario C: a single requirement of two periods whose only allowed
\* teacher is blocked at every day and period
ScenarioC ==
    /\ Len(payload.data.requirements) = 1
    /\ payload.data.requirements[1].periodsPerCycle = 2
    /\ Len(payload.data.requirements[1].allowedTeacherIds) = 1
    /\ \A time \in AllTimes :
        BlockedAt(payload.data.requirements[1].allowedTeacherIds[1], time)

\* C3: no cell filled by the placer holds a teacher at a time of that
\* teacher's blocklist; a lesson whose allowed teachers are all blocked all
\* the time gets no option; and in scenario C every candidate has at least
\* two unplaced lessons and a score of at most 8000.
C3_BlocklistRespected ==
    /\ \A grid \in Grids :
        \A key \in PlacedKeys(grid) :
            ~BlockedAt(grid[key].teacherId, <<key[1], key[2]>>)
    /\ (pc = "pick" /\ \A k \in 1..Len(lessons[idx].allowedTeacherIds) :
                          \A time \in AllTimes :
                              BlockedAt(lessons[idx].allowedTeacherIds[k], time))
            => options = <<>>
    /\ ScenarioC => \A c \in Candidates : c.unplaced >= 2 /\ c.score <= 8000

\* scenario C has run to its end and returned a candidate
C3_Witness == pc = "done" /\ ScenarioC /\ Len(result) > 0

\* the number of (class, day, i) with the same non-empty subject in periods
\* i-1 and i of the period list
Adjacent(grid) ==
    Cardinality(
        {t \in {payload.data.classes[c] : c \in 1..Len(payload.data.classes)}
               \X {payload.data.days[d] : d \in 1..Len(payload.data.days)}
               \X (2..Len(payload.data.periods)) :
            LET a == Lookup(grid, <<t[2], payload.data.periods[t[3] - 1].id, t[1]>>)
                b == Lookup(grid, <<t[2], payload.data.periods[t[3]].id, t[1]>>)
            IN  a # null /\ b # null /\ a.subjectId = b.subjectId})

\* C4: the score of every candidate is max(0, 10000 - 1000 * unplaced - 6 * A)
\* with A the number of adjacent same-subject pairs; so it lies in
\* [0, 10000] and is the same for candidates of equal unplaced count and A.
C4_ScoreFormula ==
    \A c \in Candidates :
        LET raw == 10000 - 1000 * c.unplaced - 6 * Adjacent(c.slots)
        IN  /\ c.score = (IF raw < 0 THEN 0 ELSE raw)
            /\ c.score >= 0 /\ c.score <= 10000
            /\ \A e \in Candidates :
                (e.unplaced = c.unplaced /\ Adjacent(e.slots) = Adjacent(c.slots))
                    => e.score = c.score

\* a returned candidate that pays for an unplaced lesson and for an adjacent
\* pair
C4_Witness ==
    pc = "done" /\ \E c \in Candidates : Adjacent(c.slots) >= 1 /\ c.unplaced >= 1

\* C2: every returned candidate holds, at every key of lockedSlots, the
\* value the live grid had at that key, the empty value included.
C2_LockedValuesPreserved ==
    \A c \in Candidates :
        \A key \in LockedKeys :
            Lookup(c.slots, key) = Lookup(payload.data.slots, key)

\* C5: no two entries of the pool, or of the returned list, have the same
\* grid.
C5_NoDuplicateGrids ==
    /\ \A a, b \in 1..Len(best) : a # b => best[a].slots # best[b].slots
    /\ \A a, b \in 1..Len(result) : a # b => result[a].slots # result[b].slots

\* two attempts ended in the same grid and the pool holds it once
C5_Witness ==
    /\ pc = "done"
    /\ ran >= 2
    /\ Cardinality(seen) < ran
    /\ Len(result) >= 1

\* C6: the pool never holds more than keep candidates, nor does the result.
C6_PoolWithinKeep ==
    /\ Len(best) <= payload.keep
    /\ Len(result) <= payload.keep

\* more distinct grids were produced than the pool may keep, and the pool
\* is full
C6_Witness ==
    /\ pc = "done"
    /\ payload.keep >= 1
    /\ Cardinality(seen) > payload.keep
    /\ Len(result) = payload.keep

BestFirst(list) ==
    \A k \in 1..(Len(list) - 1) :
        /\ list[k].score >= list[k + 1].score
        /\ list[k].score = list[k + 1].score => list[k].unplaced <= list[k + 1].unplaced

\* C7: the pool and the result are ordered best first: scores do not
\* increase, and neighbours of equal score have non-decreasing unplaced
\* counts.
C7_BestFirst == BestFirst(best) /\ BestFirst(result)

\* a result with two candidates of different scores
C7_Witness ==
    pc = "done" /\ Len(result) >= 2 /\ result[1].score > result[2].score

\* a result with two candidates of equal score and different unplaced counts
C7_TieWitness ==
    /\ pc = "done" /\ Len(result) >= 2
    /\ result[1].score = result[2].score
    /\ result[1].unplaced < result[2].unplaced

RoomTaken(grid, time, roomId) ==
    \E key \in DOMAIN grid :
        /\ grid[key] # null
        /\ <<key[1], key[2]>> = time
        /\ grid[key].roomId = roomId

TeacherTaken(grid, time, teacherId) ==
    \E key \in DOMAIN grid :
        /\ grid[key] # null
        /\ <<key[1], key[2]>> = time
        /\ grid[key].teacherId = teacherId

NonBreakTimes ==
    {<<payload.data.days[d], payload.data.periods[p].id>> :
        d \in 1..Len(payload.data.days),
        p \in {q \in 1..Len(payload.data.periods) : ~payload.data.periods[q].isBreak}}

\* C8: when the options of a lesson have been computed, every empty
\* non-break cell of its class combined with every allowed teacher who is
\* neither blocked nor busy at that time is among the options, whatever the
\* room situation; the option carries the preferred room iff no filled cell
\* of that time uses it, and no room otherwise.
C8_RoomNeverBlocks ==
    pc = "pick" =>
        LET item == lessons[idx]
        IN  \A time \in NonBreakTimes :
              \A k \in 1..Len(item.allowedTeacherIds) :
                LET teacherId == item.allowedTeacherIds[k]
                    key == <<time[1], time[2], item.classId>>
                IN  (/\ Lookup(slots, key) = null
                     /\ ~BlockedAt(teacherId, time)
                     /\ ~TeacherTaken(slots, time, teacherId))
                    => /\ \E o \in 1..Len(options) :
                            /\ options[o].key = key
                            /\ options[o].value.teacherId = teacherId
                       /\ \A o \in 1..Len(options) :
                            (options[o].key = key /\ options[o].value.teacherId = teacherId)
                            => options[o].value.roomId =
                                 (IF RoomTaken(slots, time, item.preferredRoomId)
                                  THEN undefined ELSE item.preferredRoomId)

\* a lesson with a preferred room gets an option in a period in which that
\* room is taken, and the option has no room
C8_Witness ==
    /\ pc = "pick"
    /\ lessons[idx].preferredRoomId # undefined
    /\ \E o \in 1..Len(options) :
        /\ options[o].value.roomId = undefined
        /\ RoomTaken(slots, <<options[o].key[1], options[o].key[2]>>,
                     lessons[idx].preferredRoomId)

RECURSIVE SumPeriods(_)
SumPeriods(reqs) ==
    IF reqs = <<>> THEN 0 ELSE Head(reqs).periodsPerCycle + SumPeriods(Tail(reqs))

\* C10: buildLessonItems yields exactly sum(periodsPerCycle) lesson tasks,
\* and for every requirement as many tasks with its class, subject and
\* preferred room as the requirements with these three fields ask for.
C10_OneTaskPerOccurrence ==
    ran > 0 =>
        /\ Len(items) = SumPeriods(payload.data.requirements)
        /\ \A r \in 1..Len(payload.data.requirements) :
            LET req == payload.data.requirements[r]
                same(x) == /\ x.classId = req.classId
                           /\ x.subjectId = req.subjectId
                           /\ x.preferredRoomId = req.preferredRoomId
            IN  Cardinality({k \in 1..Len(items) : same(items[k])})
                  = SumPeriods(SelectSeq(payload.data.requirements, same))

\* the tasks of two requirements, one of them of several periods
C10_Witness ==
    /\ ran > 0
    /\ Len(payload.data.requirements) = 2
    /\ payload.data.requirements[1].periodsPerCycle = 2
    /\ Len(items) = 3

\* C9: generateCandidates terminates, and when it returns it has run
\* exactly `attempts` placement attempts: never more on the way, and none is
\* added for an attempt that ended in a grid already seen.
C9_RunsExactlyAttempts ==
    /\ <>(pc = "done")
    /\ [](ran <= payload.attempts)
    /\ [](pc = "done" => (ran = payload.attempts /\ i = payload.attempts))

\* every attempt after the first ended in the grid of the first, and the
\* call returned after the full budget
C9_Witness ==
    /\ pc = "done"
    /\ payload.attempts = MaxAttempts
    /\ ran = MaxAttempts
    /\ Cardinality(seen) = 1

(***************************************************************************)
(* Properties of the time model builder                                    *)
(***************************************************************************)
BuildSucceeded == timePc = "returned" /\ computed.error = undefined

BuildFailed == timePc = "returned" /\ computed.error # undefined

\* start and end of the k-th returned period, in minutes, read back from
\* the strings of the result
PeriodStart(k) == parseHHMM(computed.periods[k].start)
PeriodEnd(k) == parseHHMM(computed.periods[k].end)

WindowStart == parseHHMM(timeCall.dayStartTime)
WindowEnd == parseHHMM(timeCall.dayEndTime)

\* minute m (the minute from m to m + 1) lies inside a break
InBreak(m) ==
    \E b \in 1..Len(timeCall.breaks) :
        /\ parseHHMM(timeCall.breaks[b].startTime) <= m
        /\ m < parseHHMM(timeCall.breaks[b].endTime)

\* the minutes of the day window outside every break
InstructionalMinutes == {m \in WindowStart..(WindowEnd - 1) : ~InBreak(m)}

\* C11: when buildComputedPeriods succeeds, the periods are periodCount in
\* number, each starts before it ends, each lies inside the day window,
\* they come in ascending order without overlap, and none intersects a
\* break.
C11_PeriodsWellFormed ==
    BuildSucceeded =>
        LET n == Len(computed.periods)
        IN  /\ n = timeCall.periodCount
            /\ \A k \in 1..n :
                /\ PeriodStart(k) # nullMinutes /\ PeriodEnd(k) # nullMinutes
                /\ PeriodStart(k) < PeriodEnd(k)
                /\ WindowStart <= PeriodStart(k) /\ PeriodEnd(k) <= WindowEnd
                /\ \A b \in 1..Len(timeCall.breaks) :
                    ~(/\ PeriodStart(k) < parseHHMM(timeCall.breaks[b].endTime)
                      /\ PeriodEnd(k) > parseHHMM(timeCall.breaks[b].startTime))
            /\ \A j, k \in 1..n : j < k => PeriodEnd(j) <= PeriodStart(k)

\* a success with two breaks and periods in more than one interval
C11_Witness ==
    /\ BuildSucceeded
    /\ Len(timeCall.breaks) = 2
    /\ Cardinality({k \in 1..Len(counts) : counts[k] > 0}) >= 2
    /\ Len(computed.periods) = MaxPeriodCount

\* C12: when buildComputedPeriods succeeds, every minute of the day window
\* that is outside every break lies in exactly one returned period.
C12_CoversDayMinusBreaks ==
    BuildSucceeded =>
        \A m \in InstructionalMinutes :
            Cardinality({k \in 1..Len(computed.periods) :
                            PeriodStart(k) <= m /\ m < PeriodEnd(k)}) = 1

\* C13: when buildComputedPeriods succeeds, every returned period is at
\* least 20 minutes long.
C13_MinimumPeriodLength ==
    BuildSucceeded =>
        \A k \in 1..Len(computed.periods) : PeriodEnd(k) - PeriodStart(k) >= 20

\* a success in which the rebalancing loop moved a period out of an interval
\* shorter than 20 minutes
C13_Witness ==
    /\ BuildSucceeded
    /\ \E k \in 1..Len(counts) :
        /\ intervalLength(intervals[k]) < 20
        /\ allocateCounts(intervals, timeCall.periodCount)[k] > 0
        /\ counts[k] = 0

\* C14: with valid breaks and periodCount >= 1, fewer instructional minutes
\* than periodCount * 20 make buildComputedPeriods fail with the
\* insufficient-minutes error; and every failure returns a reason string
\* and an empty period list, no period list being set before the return.
C14_InsufficientMinutesFails ==
    /\ (/\ timePc = "returned"
        /\ validateBreaks(timeCall.breaks, timeCall.dayStartTime, timeCall.dayEndTime)
              = nullString
        /\ timeCall.periodCount >= 1
        /\ Cardinality(InstructionalMinutes) < timeCall.periodCount * 20)
          => computed.error = "Not enough instructional minutes. Need at least "
                                \o ToString(timeCall.periodCount * 20) \o " minutes."
    /\ BuildFailed =>
          /\ computed.periods = <<>>
          /\ computed.error \notin {"", nullString}
    /\ timePc # "returned" => computed.periods = <<>>

\* the 40-minute day with three periods, rejected for its minutes
C14_Witness ==
    /\ BuildFailed
    /\ timeCall.dayStartTime = HHMM(8, 0) /\ timeCall.dayEndTime = HHMM(8, 40)
    /\ timeCall.breaks = <<>>
    /\ timeCall.periodCount = 3
    /\ computed.error = "Not enough instructional minutes. Need at least 60 minutes."

(***************************************************************************)
(* Properties of one placement attempt                                     *)
(***************************************************************************)
\* the cells of a grid of the call that the placer filled: filled now, empty
\* in the grid the attempt started from
FilledByPlacer(grid) ==
    UNION { {key \in DOMAIN grid : grid[key] # null /\ start[key] = null} :
            start \in {initialSlots(payload.data, payload.lockedSlots)} }

\* a step inside one attempt
AttemptStep == pc \in {"choose", "pick"} /\ ran' = ran

\* what C19 asks of a step inside an attempt
CommitWritesEmptyCell ==
    AttemptStep =>
        /\ DOMAIN slots' = DOMAIN slots
        /\ \A key \in DOMAIN slots : slots[key] # null => slots'[key] = slots[key]
        /\ Cardinality({key \in DOMAIN slots : slots'[key] # slots[key]}) <= 1
        /\ \A key \in DOMAIN slots :
            slots'[key] # slots[key] =>
                /\ pc = "pick"
                /\ slots[key] = null
                /\ slots'[key] # null
                /\ key[3] = lessons[idx].classId
                /\ <<key[1], key[2]>> \in NonBreakTimes

\* C19: inside an attempt a commit writes one cell, which is empty at that
\* moment, belongs to the class of the lesson and is no break period; a
\* filled cell, locked or placed, is never changed or cleared, so the filled
\* cells only grow.
C19_CommitsOnlyIntoEmptyCells == [][CommitWritesEmptyCell]_vars

\* an attempt has placed two lessons beside a locked lesson that still holds
\* its live value
C19_Witness ==
    /\ pc = "choose"
    /\ idx > Len(lessons)
    /\ Cardinality(FilledByPlacer(slots)) >= 2
    /\ \E key \in LockedKeys \cap DOMAIN slots :
        slots[key] # null /\ slots[key] = Lookup(payload.data.slots, key)

\* the lesson at its turn has a feasible (slot, teacher) option: an empty
\* non-break cell of its class and an allowed teacher neither blocked nor
\* busy then
Feasible ==
    \E time \in NonBreakTimes :
        \E k \in 1..Len(lessons[idx].allowedTeacherIds) :
            /\ Lookup(slots, <<time[1], time[2], lessons[idx].classId>>) = null
            /\ ~BlockedAt(lessons[idx].allowedTeacherIds[k], time)
            /\ ~TeacherTaken(slots, time, lessons[idx].allowedTeacherIds[k])

\* the accounting of an attempt after idx - 1 lessons had their turn, and of
\* what the attempts made so far returned
AttemptAccounts ==
    /\ pc \in {"choose", "pick"} =>
        /\ Len(lessons) = Len(items)
        /\ unplaced + Cardinality(FilledByPlacer(slots)) = idx - 1
        /\ 0 <= unplaced /\ unplaced <= Len(items)
    /\ \A k \in 1..Len(trials) :
        /\ trials[k].unplaced + Cardinality(FilledByPlacer(trials[k].slots)) = Len(items)
        /\ 0 <= trials[k].unplaced /\ trials[k].unplaced <= Len(items)

\* a lesson is counted exactly when it has no feasible option at its turn,
\* and the attempt moves on to the next lesson
CountsWhenInfeasible ==
    /\ pc = "pick" =>
        \E feasible \in {Feasible} :
            /\ idx' = idx + 1
            /\ unplaced' = unplaced + (IF feasible THEN 0 ELSE 1)
            /\ Cardinality(FilledByPlacer(slots'))
                  = Cardinality(FilledByPlacer(slots)) + (IF feasible THEN 1 ELSE 0)
    /\ AttemptStep => idx' >= idx /\ unplaced' >= unplaced

\* C20: in every attempt unplaced plus the number of cells the placer filled
\* is the number of lessons that had their turn, at the end the total number
\* of lesson tasks, with 0 <= unplaced <= total; a lesson is counted unplaced
\* exactly when it has no feasible option at its turn, and no lesson gets a
\* second turn.
C20_UnplacedAccounting == []AttemptAccounts /\ [][CountsWhenInfeasible]_vars

\* an attempt returned with lessons placed and lessons unplaced
C20_Witness ==
    \E k \in 1..Len(trials) :
        /\ trials[k].unplaced >= 1
        /\ Cardinality(FilledByPlacer(trials[k].slots)) >= 1

Live(w) == workers[w].status # "terminated"

\* the most recently issued request
Latest == Len(workers)

AtMostOneLive ==
    /\ Cardinality({w \in 1..Len(workers) : Live(w)}) <= 1
    /\ \A w \in 1..Len(workers) : w < Latest => ~Live(w)

\* the step is the worker.onmessage handler handling a message of worker w
OnMessageStep(w) ==
    /\ lastOp' = Op("onmessage", w)
    /\ workers[w].outbox # <<>>
    /\ workers'[w].outbox = <<>>

SupersededIsTerminated ==
    (Len(workers') > Len(workers) /\ workerRef # 0) =>
        workers'[workerRef].status = "terminated"

StoresOnlyLatest ==
    stateRuntime'.generatedCandidates # stateRuntime.generatedCandidates =>
        /\ Latest > 0
        /\ OnMessageStep(Latest)
        /\ stateRuntime'.generatedCandidates = Head(workers[Latest].outbox).candidates

\* C16: a request issued while an earlier one is in flight terminates the
\* earlier worker; at most one worker is live at any time, every worker but
\* the most recently created one is terminated, and generatedCandidates
\* changes only when the result message of the most recently issued request
\* is handled, to the candidates of that message
C16_OnlyLatestRequestStored ==
    []AtMostOneLive /\ [][SupersededIsTerminated /\ StoresOnlyLatest]_vars

\* a second request was issued when the first worker had posted its result
\* and the main thread had not handled it: the result was dropped
C16_Witness ==
    /\ Len(workers) = 2
    /\ workerRef = 2
    /\ lastOp = Op("runGenerate", null)
    /\ workers[1].status = "terminated"
    /\ workers[1].sent = 1
    /\ stateRuntime.generatedCandidates = <<>>
    /\ stateRuntime.generating

SnapshotUsed == running # 0 => payload = workers[running].payload

SnapshotTaken ==
    /\ Len(workers') > Len(workers) =>
        /\ workers'[Len(workers')].payload.data = stateData
        /\ workers'[Len(workers')].payload.lockedSlots = stateRuntime.lockedSlots
    /\ \A w \in 1..Len(workers) : workers'[w].payload = workers[w].payload

\* a step of the worker: the generator variables change and no worker is
\* created or terminated
WorkerStep ==
    /\ genVars' # genVars
    /\ Len(workers') = Len(workers)
    /\ \A w \in 1..Len(workers) : workers'[w].status = "terminated" <=> ~Live(w)

WorkerLeavesLiveState ==
    WorkerStep => stateData' = stateData /\ stateRuntime' = stateRuntime

OneMessage ==
    \A w \in 1..Len(workers) :
        /\ workers[w].sent <= 1
        /\ Len(workers[w].outbox) <= workers[w].sent
        /\ workers[w].status \in {"queued", "running"} => workers[w].sent = 0

PostsAtCompletion ==
    \A w \in 1..Len(workers) :
        workers'[w].sent > workers[w].sent =>
            /\ pc = "done"
            /\ running = w
            /\ workers'[w].outbox = <<[type |-> "result", candidates |-> result]>>

\* C17: the payload a worker computes from is the one posted with the
\* request, which holds the live data and locked list of that moment and
\* never changes afterwards; a step of the worker leaves the live state
\* alone; a worker posts at most one message, when generateCandidates has
\* returned, holding the returned list
C17_RunUsesSnapshot ==
    /\ [](SnapshotUsed /\ OneMessage)
    /\ [][SnapshotTaken /\ WorkerLeavesLiveState /\ PostsAtCompletion]_vars

\* a worker has posted its result and the live state was edited after its
\* request was issued
C17_Witness ==
    \E w \in 1..Len(workers) :
        /\ workers[w].outbox # <<>>
        /\ workers[w].payload.data # stateData
        /\ workers[w].payload.lockedSlots # stateRuntime.lockedSlots

\* the step is a call of applyCandidate
ApplyStep == lastOp'.op = "applyCandidate" /\ edits' = edits + 1

StoredWithId(id) ==
    {k \in 1..Len(stateRuntime.generatedCandidates) :
        stateRuntime.generatedCandidates[k].id = id}

ApplyFrame ==
    ApplyStep =>
        IF StoredWithId(lastOp'.arg) # {}
        THEN /\ \E k \in StoredWithId(lastOp'.arg) :
                    stateData'.slots = stateRuntime.generatedCandidates[k].slots
             /\ [stateData' EXCEPT !.slots = stateData.slots] = stateData
             /\ stateRuntime'.lockedSlots = stateRuntime.lockedSlots
             /\ stateRuntime'.generatedCandidates = stateRuntime.generatedCandidates
        ELSE /\ stateData' = stateData
             /\ stateRuntime' = stateRuntime

\* C18: applyCandidate with the id of a stored candidate makes the live grid
\* equal to that candidate's grid and leaves every other field of the data,
\* the locked list and the candidate list as they were; with an id no
\* stored candidate has, data and runtime state are unchanged
C18_ApplyReplacesGrid == [][ApplyFrame]_vars

\* a candidate was applied over a grid that had a lesson in a cell the
\* candidate leaves empty
C18_Witness ==
    /\ lastOp.op = "applyCandidate"
    /\ StoredWithId(lastOp.arg) # {}
    /\ stateRuntime.toast = "Candidate applied."
    /\ Len(stateRuntime.historyPast) > 0
    /\ LET before == stateRuntime.historyPast[Len(stateRuntime.historyPast)]
       IN  \E key \in DOMAIN before :
            /\ before[key] # null
            /\ stateData.slots[key] = null

(***************************************************************************)
(* Properties of the returned list against everything the attempts made    *)
(***************************************************************************)
\* the grids the attempts of the run produced
ProducedGrids == {t.slots : t \in produced}

ResultGrids == {result[k].slots : k \in 1..Len(result)}

\* a ranks strictly better than b: higher score, or equal score and fewer
\* unplaced lessons
RanksBetter(a, b) ==
    \/ a.score > b.score
    \/ a.score = b.score /\ a.unplaced < b.unplaced

\* what an attempt returned, with the score generateCandidates gives it
Scored(t) ==
    [score |-> scoreSchedule(payload.data, t.slots, t.unplaced),
     unplaced |-> t.unplaced, slots |-> t.slots]

Min(a, b) == IF a <= b THEN a ELSE b

\* C21: when generateCandidates has returned, every grid of the result was
\* produced by an attempt with the score and unplaced count the list gives
\* it, and no grid an attempt produced that is absent from the result ranks
\* strictly better (higher score, or equal score and fewer unplaced) than a
\* grid of the result.
C21_ResultHoldsTheBest ==
    pc = "done" =>
        /\ \A k \in 1..Len(result) :
            \E t \in produced :
                /\ t.slots = result[k].slots
                /\ result[k].score = Scored(t).score
                /\ result[k].unplaced = t.unplaced
        /\ \A t \in produced :
            t.slots \notin ResultGrids =>
                \A k \in 1..Len(result) : ~RanksBetter(Scored(t), result[k])

\* an attempt produced a grid that is not in the result and that ranks
\* strictly worse than the one kept
C21_Witness ==
    /\ pc = "done"
    /\ Len(result) >= 1
    /\ \E t \in produced :
        /\ t.slots \notin ResultGrids
        /\ RanksBetter(result[Len(result)], Scored(t))

\* C22: the result has min(keep, number of distinct grids the attempts
\* produced) candidates; with at least one attempt and keep >= 1 it is not
\* empty.
C22_ResultSize ==
    pc = "done" =>
        /\ Len(result) = Min(payload.keep, Cardinality(ProducedGrids))
        /\ (payload.attempts >= 1 /\ payload.keep >= 1) => Len(result) >= 1

\* two attempts ended in the same grid, in which no lesson is placed, and
\* the result holds that one grid
C22_Witness ==
    /\ pc = "done"
    /\ ran >= 2
    /\ payload.keep >= 2
    /\ Cardinality(ProducedGrids) = 1
    /\ Len(result) = 1
    /\ result[1].unplaced = Len(items)
    /\ Len(items) >= 1

(***************************************************************************)
(* Properties of the tasks of an attempt and of the cells it fills         *)
(***************************************************************************)
Requirements == {payload.data.requirements[k] : k \in 1..Len(payload.data.requirements)}

KnownTeachers == {payload.data.teachers[k] : k \in 1..Len(payload.data.teachers)}

ElementsOf(seq) == {seq[k] : k \in 1..Len(seq)}

\* the requirement lets teacher t teach its lessons
Allows(req, t) ==
    \/ t \in ElementsOf(req.allowedTeacherIds)
    \/ req.allowedTeacherIds = <<>> /\ t \in KnownTeachers

\* the periods required for a class and subject, over all requirements
RequiredPeriods(classId, subjectId) ==
    SumPeriods(SelectSeq(payload.data.requirements,
                         LAMBDA r : r.classId = classId /\ r.subjectId = subjectId))

PlacedFor(grid, classId, subjectId) ==
    {key \in FilledByPlacer(grid) : key[3] = classId /\ grid[key].subjectId = subjectId}

FollowsRequirements(grid) ==
    /\ \A key \in FilledByPlacer(grid) :
        \E req \in Requirements :
            /\ req.classId = key[3]
            /\ req.subjectId = grid[key].subjectId
            /\ Allows(req, grid[key].teacherId)
    /\ \A key \in FilledByPlacer(grid) :
        Cardinality(PlacedFor(grid, key[3], grid[key].subjectId))
            <= RequiredPeriods(key[3], grid[key].subjectId)

\* C23: in the grid of an attempt, while it runs and when it is returned,
\* every cell the placer filled holds the subject of some requirement of
\* the cell's class and a teacher that requirement allows (one of its
\* allowed teachers, or any known teacher when it lists none), and for each
\* class and subject no more cells are filled than the requirements for
\* that pair ask periods.
C23_CellsFollowRequirements ==
    /\ pc \in {"choose", "pick"} => FollowsRequirements(slots)
    /\ \A k \in 1..Len(trials) : FollowsRequirements(trials[k].slots)

\* an attempt returned a grid in which a requirement of two periods without
\* allowed teachers is fully placed, one lesson with the second teacher
C23_Witness ==
    \E k \in 1..Len(trials) :
        \E key \in FilledByPlacer(trials[k].slots) :
            LET value == trials[k].slots[key]
            IN  /\ value.teacherId = "t2"
                /\ RequiredPeriods(key[3], value.subjectId) >= 2
                /\ Cardinality(PlacedFor(trials[k].slots, key[3], value.subjectId))
                      = RequiredPeriods(key[3], value.subjectId)

\* how often x occurs in seq
Occurrences(seq, x) == Cardinality({k \in 1..Len(seq) : seq[k] = x})

SortedByAllowed(list) ==
    \A k \in 1..(Len(list) - 1) :
        Len(list[k].allowedTeacherIds) <= Len(list[k + 1].allowedTeacherIds)

\* every task carries the allowed teachers of a requirement for its class
\* and subject, or all known teachers when that requirement lists none
DefaultApplied(list) ==
    \A k \in 1..Len(list) :
        \E req \in Requirements :
            /\ req.classId = list[k].classId
            /\ req.subjectId = list[k].subjectId
            /\ list[k].allowedTeacherIds =
                  IF req.allowedTeacherIds = <<>> THEN payload.data.teachers
                  ELSE req.allowedTeacherIds

\* C30: the list buildLessonItems returned is in ascending order of the
\* number of allowed teachers, an empty list having been replaced by all
\* known teachers; the list the attempt processes holds every task of it
\* as often as it does, and the returned list is still what buildLessonItems
\* made while the attempt processes the shuffled one.
C30_SortedThenPermuted ==
    pc \in {"choose", "pick"} =>
        /\ SortedByAllowed(items)
        /\ DefaultApplied(items)
        /\ Len(lessons) = Len(items)
        /\ \A x \in ElementsOf(items) \cup ElementsOf(lessons) :
            Occurrences(lessons, x) = Occurrences(items, x)
        /\ items = buildLessonItems(payload.data)

\* the sort moved a task forward and the shuffle changed the order again
C30_Witness ==
    /\ pc = "pick"
    /\ Len(items) >= 3
    /\ items # expandRequirements(payload.data.requirements, payload.data.teachers)
    /\ lessons # items
    /\ Len(items[1].allowedTeacherIds) < Len(items[Len(items)].allowedTeacherIds)

(***************************************************************************)
(* Properties of the allocation and of the split                           *)
(***************************************************************************)
\* the call has a valid day window and valid breaks and asks for a period
ValidCall ==
    /\ validateBreaks(timeCall.breaks, timeCall.dayStartTime, timeCall.dayEndTime)
          = nullString
    /\ timeCall.periodCount >= 1

\* the instructional intervals of the call
CallIntervals == buildIntervals(timeCall.breaks, WindowStart, WindowEnd)

\* the periods of at least minPeriodMinutes the intervals have room for
Capacity ==
    SumInts([k \in 1..Len(CallIntervals) |->
                intervalLength(CallIntervals[k]) \div minPeriodMinutes])

NoValidSplit ==
    computed.error = "Break layout leaves no valid period split (min period 20 min)."

SucceedsWhenPossible ==
    (timePc = "returned" /\ ValidCall) =>
        /\ Capacity >= timeCall.periodCount => computed.error = undefined
        /\ NoValidSplit => Capacity < timeCall.periodCount

\* C25: for a call with valid breaks and periodCount >= 1,
\* buildComputedPeriods succeeds when the intervals have room for
\* periodCount periods of at least 20 minutes (the sum of
\* floor(length / 20) over the intervals is at least periodCount), the
\* no-valid-split error is returned only when they have not, and every call
\* returns: the rebalancing loop ends.
C25_SucceedsWhenSplitExists == []SucceedsWhenPossible /\ <>(timePc = "returned")

\* a call succeeded after the rebalancing loop moved a period and ran a
\* second pass
C25_Witness ==
    /\ BuildSucceeded
    /\ ValidCall
    /\ counts # allocateCounts(intervals, timeCall.periodCount)
    /\ Capacity = timeCall.periodCount

\* the periods lying in the k-th instructional interval
PeriodsIn(k) ==
    {p \in 1..Len(computed.periods) :
        /\ intervals[k].start <= PeriodStart(p)
        /\ PeriodEnd(p) <= intervals[k].end}

PeriodLength(p) == PeriodEnd(p) - PeriodStart(p)

EvenSplit(k) ==
    LET inside == PeriodsIn(k)
        first == CHOOSE p \in inside : \A q \in inside : p <= q
        last == CHOOSE p \in inside : \A q \in inside : q <= p
    IN  /\ inside = first..last
        /\ PeriodStart(first) = intervals[k].start
        /\ PeriodEnd(last) = intervals[k].end
        /\ \A p \in first..(last - 1) :
            /\ PeriodEnd(p) = PeriodStart(p + 1)
            /\ PeriodLength(p) >= PeriodLength(p + 1)
        /\ PeriodLength(first) - PeriodLength(last) <= 1

\* C26: on success, in every instructional interval that holds a period the
\* periods follow each other without a gap from the start of the interval
\* to its end, no period is longer than the one before it, and the first
\* is at most one minute longer than the last.
C26_EvenSplitPerInterval ==
    BuildSucceeded =>
        \A k \in 1..Len(intervals) : PeriodsIn(k) # {} => EvenSplit(k)

\* an interval of 70 or 100 minutes was split in three periods, the first
\* a minute longer than the last
C26_Witness ==
    /\ BuildSucceeded
    /\ \E k \in 1..Len(intervals) :
        /\ Cardinality(PeriodsIn(k)) >= 3
        /\ \E p \in PeriodsIn(k) : \E q \in PeriodsIn(k) :
            PeriodLength(p) = PeriodLength(q) + 1

(***************************************************************************)
(* Properties of the store: setTimeModel and the history of the grid       *)
(***************************************************************************)
\* the step in which setTimeModel returns
TimeModelReturns == timePc = "returned" /\ timePc' = "idle"

\* the time model the store holds
StoredTimeModel(data) ==
    <<data.dayStartTime, data.dayEndTime, data.periodCount, data.breaks, data.periods>>

\* a refused call answers ok = false with the error and changes the toast only
RefusedChangesToastOnly ==
    (TimeModelReturns /\ computed.error # undefined) =>
        /\ lastOp' = Op("setTimeModel", [ok |-> FALSE, error |-> computed.error])
        /\ stateData' = stateData
        /\ stateRuntime' = [stateRuntime EXCEPT !.toast = computed.error]

\* while buildComputedPeriods is at work the store is not written
NothingStoredMeanwhile ==
    (timePc # "idle" /\ ~TimeModelReturns) => UNCHANGED <<stateData, stateRuntime>>

\* a time model is stored only by a call that was accepted, and whole
StoredWhole ==
    (StoredTimeModel(stateData') # StoredTimeModel(stateData)) =>
        /\ TimeModelReturns
        /\ computed.error = undefined
        /\ Len(computed.periods) = timeCall.periodCount
        /\ StoredTimeModel(stateData') =
            <<timeCall.dayStartTime, timeCall.dayEndTime, timeCall.periodCount,
              timeCall.breaks, computed.periods>>

\* C27: when buildComputedPeriods refuses the configuration, setTimeModel
\* returns ok = false with the error string and leaves the periods, the
\* breaks, the day window, the grid, the teacher blocklists and the locked
\* cells as they were, only the toast changes; no partly computed time model
\* is ever stored
C27_RefusedTimeModelChangesNothing ==
    [][RefusedChangesToastOnly /\ NothingStoredMeanwhile /\ StoredWhole]_vars

\* a call the rebalancing gave up on has returned, with periods already
\* allocated when it failed; grid, blocklist and locks are still there
C27_Witness ==
    /\ stateData # null
    /\ lastOp.op = "setTimeModel"
    /\ ~lastOp.arg.ok
    /\ lastOp.arg.error = "Break layout leaves no valid period split (min period 20 min)."
    /\ stateRuntime.toast = lastOp.arg.error
    /\ stateData.slots = StartGrid
    /\ stateData.periods = AppShape.periods
    /\ stateData.teacherBlocked["t1"] # {}
    /\ Len(stateRuntime.lockedSlots) = 1

\* the last operation changed the grid and pushed the old one
GridChanged(op) == "before" \in DOMAIN op

\* a step of the named operation of the store
StepOf(name) == timePc = "idle" /\ timePc' = "idle" /\ lastOp'.op = name

\* a new operation on the grid empties the redo stack
NewOperationEmptiesRedo ==
    (lastOp'.op \in SlotOps /\ GridChanged(lastOp') /\ edits' = edits + 1) =>
        stateRuntime'.historyFuture = <<>>

\* undoSlots right after an operation on the grid brings back the grid from
\* before it
UndoRestoresBefore ==
    (lastOp.op \in SlotOps /\ GridChanged(lastOp) /\ StepOf("undoSlots")) =>
        stateData'.slots = lastOp.before

\* redoSlots right after that undoSlots brings back the grid from after it
RedoRestoresAfter ==
    (lastOp.op = "undoSlots" /\ GridChanged(lastOp) /\ StepOf("redoSlots")) =>
        stateData'.slots = lastOp.after

\* C28: after an operation that changes the grid (upsertSlot, swapOrMoveSlot,
\* clearSlot, applyCandidate, paste, delete-selected) undoSlots restores the
\* grid from before the operation and a following redoSlots the grid from
\* after it; a new such operation empties the redo stack; the undo stack
\* never holds more than 80 grids
C28_UndoRedoRoundTrip ==
    /\ [](stateRuntime # null => Len(stateRuntime.historyPast) <= maxHistoryDepth)
    /\ [][NewOperationEmptiesRedo /\ UndoRestoresBefore /\ RedoRestoresAfter]_vars

\* an operation on a full undo stack was undone and redone: the grid is the
\* one after the operation, which differs from the one before
C28_Witness ==
    /\ stateRuntime # null
    /\ lastOp.op = "redoSlots"
    /\ GridChanged(lastOp)
    /\ lastOp.before # lastOp.after
    /\ stateData.slots = lastOp.after
    /\ Len(stateRuntime.historyPast) = maxHistoryDepth

(***************************************************************************)
(* The overlay check of the editor on the candidates of the generator      *)
(***************************************************************************)
\* conflictMap(data): for every cell with a conflict its messages, each as
\* the kind of conflict and the class it is with.  The arrays of messages
\* are kept as sets
conflictMap(data) ==
    LET filled == {key \in DOMAIN data.slots : data.slots[key] # null}
        blockedAt(teacherId) ==
            IF teacherId \in DOMAIN data.teacherBlocked
            THEN data.teacherBlocked[teacherId] ELSE {}
        unavailable(key) ==
            IF <<parseSlotKey(key).day, parseSlotKey(key).periodId>>
                    \in blockedAt(data.slots[key].teacherId)
            THEN {<<"Teacher unavailable for this slot", "">>} ELSE {}
        bucket(key) ==
            {b \in filled : /\ b # key
                            /\ parseSlotKey(b).day = parseSlotKey(key).day
                            /\ parseSlotKey(b).periodId = parseSlotKey(key).periodId}
        sameTeacher(key) ==
            {<<"Teacher can only be in one class at one time", parseSlotKey(b).classId>> :
                b \in {c \in bucket(key) :
                          /\ data.slots[key].teacherId \notin {undefined, ""}
                          /\ data.slots[key].teacherId = data.slots[c].teacherId}}
        sameRoom(key) ==
            {<<"Room clash", parseSlotKey(b).classId>> :
                b \in {c \in bucket(key) :
                          /\ data.slots[key].roomId \notin {undefined, ""}
                          /\ data.slots[c].roomId \notin {undefined, ""}
                          /\ data.slots[key].roomId = data.slots[c].roomId}}
        messages(key) == unavailable(key) \cup sameTeacher(key) \cup sameRoom(key)
    IN  [key \in {k \in filled : messages(k) # {}} |-> messages(key)]

\* the configuration of the call with a candidate applied to it
Applied(candidate) == [payload.data EXCEPT !.slots = candidate.slots]

\* C24: when lockedSlots is empty, every candidate generateCandidates
\* returns is free of conflicts under the overlay check: applied to the
\* configuration of the call, conflictMap reports no entry, neither an
\* unavailable teacher nor a teacher in two classes nor a room clash
C24_CandidatesPassOverlayCheck ==
    (pc = "done" /\ payload.lockedSlots = <<>>) =>
        \A k \in 1..Len(result) : DOMAIN conflictMap(Applied(result[k])) = {}

\* a returned candidate has two classes taught at one time by different
\* teachers, one of them without the room both lessons prefer, while a
\* teacher is blocked at some time
C24_Witness ==
    /\ pc = "done"
    /\ payload.lockedSlots = <<>>
    /\ \E t \in DOMAIN payload.data.teacherBlocked : payload.data.teacherBlocked[t] # {}
    /\ \E k \in 1..Len(result) :
        \E a, b \in DOMAIN result[k].slots :
            /\ a # b
            /\ result[k].slots[a] # null
            /\ result[k].slots[b] # null
            /\ a[1] = b[1]
            /\ a[2] = b[2]
            /\ result[k].slots[a].teacherId # result[k].slots[b].teacherId
            /\ result[k].slots[a].roomId = "r1"
            /\ result[k].slots[b].roomId = undefined

(***************************************************************************)
(* Properties of a request from acceptance to delivery                     *)
(***************************************************************************)
\* while the request of workerRef is pending the flag is set
GeneratingWhilePending == workerRef # 0 => stateRuntime.generating

\* request w got its result stored
Delivered(w) ==
    /\ w <= Len(workers)
    /\ workers[w].status = "terminated"
    /\ workers[w].sent = 1
    /\ workerRef = 0

\* a pending request is superseded by a later one or gets its result stored
DeliveredUnlessSuperseded ==
    \A w \in 1..MaxRequests : (workerRef = w) ~> (Len(workers) > w \/ Delivered(w))

\* the step that handles the result message of worker w stores that result,
\* clears the flag and leaves no worker live; the worker posted one message
DeliveryStep ==
    \A w \in 1..Len(workers) :
        (lastOp'.op = "onmessage" /\ lastOp'.arg = w /\ workers[w].outbox # <<>>
                /\ workers'[w].outbox = <<>>) =>
            /\ workers[w].sent = 1
            /\ ~stateRuntime'.generating
            /\ stateRuntime'.generatedCandidates = Head(workers[w].outbox).candidates
            /\ \A v \in 1..Len(workers') : workers'[v].status = "terminated"

\* C29: after a generation request is accepted the generating flag is true
\* until a result is stored; unless a further request supersedes it, the
\* worker eventually delivers exactly one result message, after which
\* generating is false, generatedCandidates is that result and no worker is
\* live
C29_GeneratingUntilDelivered ==
    /\ []GeneratingWhilePending
    /\ DeliveredUnlessSuperseded
    /\ [][DeliveryStep]_vars

====
